---- MODULE Spec2Model ----
(***************************************************************************)
(* Model of the climate stress metric engine of climaX                     *)
(* (src/src/climax/climate_data.py): the soil water balance simulation     *)
(* (get_soil_water, get_shelter_soil_water), its caller                    *)
(* get_drought_stress_days, the evaporation estimator get_evaporation, the *)
(* aggregators get_temp_stress_days and get_light_intensity, and the tail  *)
(* of get_climate_data with the formatting of its report                   *)
(* (src/climax_batch.py).                                                  *)
(*                                                                         *)
(* Dates are ordinals (datetime.date.toordinal()), amounts are integers    *)
(* (millimetres); a Python dict is a function whose DOMAIN is its key set. *)
(***************************************************************************)
EXTENDS Integers, Sequences, FiniteSets, TLC

\* ------------------------------------------------------------------------
\* Bounds of the model
\* ------------------------------------------------------------------------
\* number of database rows (precipitation and irrigation) of one trial
MaxRows == 2
\* last date of the (full) trial window; the window starts on date 1
LastDate == 16

\* ------------------------------------------------------------------------
\* Program constants
\* ------------------------------------------------------------------------
\* trial_dates[:14]: the fill phase
InitialDays == 14
\* treatment IDs
CONTROL == {169, 171}
STRESS == 170
\* cultures with a non-movable shelter
ShelterCultures == {56875, 62327}
\* cultures whose irrigation does not distinguish control/stress
UndistinguishedCultures == {47109, 56879}
treatments == <<"control", "stress">>

\* ------------------------------------------------------------------------
\* Input domains
\* ------------------------------------------------------------------------
Cultures == {56878, 56875, 47109}
\* dates that may carry a precipitation row
PrecDates == {1, 15}
\* dates of the trial window that may carry an irrigation row
IrriDates == {1, 15}
\* a date before the trial window, and the treatment IDs of its rows
EarlyDate == 0
EarlyTreatmentIds == {169, 172}
PrecAmounts == {-1, 2}
IrriAmounts == {1, 2}
EvapAmounts == {1}
TreatmentIds == {169, 170, 171, 172}
SoilVolumes == {2}
FloweringDates == {15}
StressThresholds == {1}

VARIABLES
    culture_id,         \* culture ID of the trial
    trial_dates,        \* list of dates handed to the simulation
    precipitation,      \* dict date -> amount
    evaporation,        \* dict date -> amount
    irrigation,         \* dict date -> list of <<amount, treatment_id>>
    soilVolume,
    flowering_date,
    stress_threshold,
    pc,                 \* "start", "soil", "count", "done", "returned", "written",
                        \* "error", "light_error", "format_error"
    i,                  \* position of the loop over trial_dates
    soil_water,         \* dict date -> dict treatment -> amount
    lookups,            \* history: <<day, treatment, result>> of yesterdays_soil_value
    droughtStressDays,  \* result of get_drought_stress_days, <<>> while none
    irrigation2,        \* second run of get_soil_water: its irrigation dict
    soil_water2,        \* second run of get_soil_water: its soil_water
    climate_data,       \* get_evaporation: list of <<date, temperature, windspeed, humidity>>
    epc,                \* get_evaporation: "idle", "rows", "days", "done"
    row,                \* get_evaporation: position of the loop over climate_data
    daily_vpd,          \* get_evaporation: dict date -> list of hourly VPD
    daily_windspeed,    \* get_evaporation: dict date -> list of windspeeds
    days_left,          \* get_evaporation: dates of set(dates) not yet visited
    daily_evaporation,  \* get_evaporation: dict date -> evaporation
    emissions,          \* history: the assignments daily_evaporation[day] = ...
    per_treatment,      \* droughtStressDays holds one 2-tuple per treatment
    report,             \* result of get_climate_data, <<>> while none
    output_line,        \* format_climate_data: the fields of the line written
    tub,                \* get_temp_stress_days: temperature upper bound
    tlb,                \* get_temp_stress_days: temperature lower bound
    tpc,                \* get_temp_stress_days: "idle", "rows", "days", "done"
    trow,               \* get_temp_stress_days: position of the loop over climate_data
    dailyMinMaxTemp,    \* get_temp_stress_days: dict date -> <<min, max>>
    tdays_left,         \* get_temp_stress_days: dates not yet visited
    cold_before,        \* get_temp_stress_days: list of differences
    cold_after,
    heat_before,
    heat_after,
    tempStressDays,     \* result of get_temp_stress_days, <<>> while none
    contributions,      \* history: <<day, list, value>> of every append
    light_data,         \* get_light_intensity: list of <<date, radiation>>
    lpc,                \* get_light_intensity: "idle", "rows", "days", "done", "error"
    lrow,               \* get_light_intensity: position of the loop over light_data
    dailyLight,         \* get_light_intensity: dict date -> list of readings
    ldays_left,         \* get_light_intensity: dates not yet visited
    L1,                 \* get_light_intensity: daily scores before flowering
    L2,                 \* get_light_intensity: daily scores from flowering on
    lightIntensity,     \* result of get_light_intensity, <<>> while none
    scores,             \* history: <<day, list, score>> of every append
    rpc,                \* get_trial_daterange: "idle", "gen", "returned"
    start_date,         \* get_trial_daterange: first column of the fetched row
    end_date,           \* get_trial_daterange: second column of the fetched row
    current,            \* generate_daterange: the date to yield next
    daterange,          \* get_trial_daterange: the list built from the generator
    date_list,          \* are_consecutive: its argument
    answer,             \* are_consecutive: "" before the call, then "True",
                        \* "False" or "ValueError"
    legacy_soil_water,  \* getClimateData.get_soil_water: its soil_water
    legacy_pc,          \* getClimateData.get_soil_water: "idle", "soil",
                        \* "count", "AssertionError", "ValueError"
    input_file,         \* climax_batch: the parameter lines, each a list of columns
    line_no,            \* climax_batch: i of "for i, line in enumerate(..., 1)"
    output_file,        \* climax_batch: the lines written, each a list of fields
    stderr,             \* climax_batch: the diagnostics written, <<i, line>>
    bpc,                \* climax_batch: "idle", "header", "loop", "done", "crashed"
    formatted,          \* history: [report, out] of every format_climate_data call
    CONNECTED_TO_DB,    \* climate_data: the module-level flag
    CURSOR,             \* climate_data: the module-level cursor
    snapshot,           \* the database the cursor reads, <<>> while none
    call_no,            \* calls of get_climate_data made so far
    first_outcome       \* history: how the first call ended, <<>> while none

soil_vars == <<culture_id, trial_dates, precipitation, evaporation, irrigation,
               soilVolume, flowering_date, stress_threshold, pc, i, soil_water,
               lookups, droughtStressDays, per_treatment, report, output_line>>
pair_vars == <<irrigation2, soil_water2>>
evap_vars == <<climate_data, epc, row, daily_vpd, daily_windspeed, days_left,
               daily_evaporation, emissions>>
temp_vars == <<tub, tlb, tpc, trow, dailyMinMaxTemp, tdays_left, cold_before,
               cold_after, heat_before, heat_after, tempStressDays,
               contributions>>
light_vars == <<light_data, lpc, lrow, dailyLight, ldays_left, L1, L2,
                lightIntensity, scores>>
report_vars == <<per_treatment, report, output_line>>

date_vars == <<rpc, start_date, end_date, current, daterange, date_list, answer>>
legacy_vars == <<legacy_soil_water, legacy_pc>>
batch_vars == <<input_file, line_no, output_file, stderr, bpc, formatted>>
call_vars == <<CONNECTED_TO_DB, CURSOR, snapshot, call_no, first_outcome>>
rest_vars == <<date_vars, legacy_vars, batch_vars, call_vars>>

vars == <<soil_vars, pair_vars, evap_vars, temp_vars, light_vars, rest_vars>>

inputs == <<culture_id, trial_dates, precipitation, evaporation, irrigation,
            soilVolume, flowering_date, stress_threshold>>

\* ------------------------------------------------------------------------
\* Helpers
\* ------------------------------------------------------------------------
Min(a, b) == IF a <= b THEN a ELSE b
Max(a, b) == IF a >= b THEN a ELSE b

\* dict.get(key, default)
Get(dict, key, default) == IF key \in DOMAIN dict THEN dict[key] ELSE default

\* soil_water[day][treatment] = value on a defaultdict of defaultdicts
Put(sw, day, treatment, value) ==
    (day :> ((treatment :> value) @@ Get(sw, day, <<>>))) @@ sw

\* generate_daterange(start, end, include_end_date=True), as a list
RECURSIVE generate_daterange(_, _)
generate_daterange(start, end) ==
    IF start <= end THEN <<start>> \o generate_daterange(start + 1, end)
    ELSE <<>>

\* are_consecutive(dates)
are_consecutive(dates) ==
    LET date_ints == {dates[k] : k \in 1..Len(dates)}
        mx == CHOOSE x \in date_ints : \A y \in date_ints : y <= x
        mn == CHOOSE x \in date_ints : \A y \in date_ints : x <= y
    IN mx - mn = Cardinality(date_ints) - 1

\* mutant: an unknown ID falls through to the last branch instead of raising
treatment_type_lenient(treatment_id) ==
    IF treatment_id \in CONTROL THEN "control" ELSE "stress"

\* treatment_type(treatment_id); "ValueError" stands for the raised exception
treatment_type(treatment_id) ==
    IF treatment_id \in CONTROL THEN "control"
    ELSE IF treatment_id = STRESS THEN "stress"
    ELSE "ValueError"

\* mutant: the value of the date processed before the day, by list position
yesterdays_soil_value_by_position(sw, day, treatment) ==
    LET before == {d \in DOMAIN sw : d < day}
    IN IF before = {} THEN 0
       ELSE Get(sw[CHOOSE d \in before : \A e \in before : e <= d], treatment, 0)

\* yesterdays_soil_value(soil_water, day, treatment)
yesterdays_soil_value(sw, day, treatment) ==
    LET yesterday == day - 1
    IN IF yesterday \in DOMAIN sw
       THEN Get(sw[yesterday], treatment, 0)
       ELSE 0

\* current_soil_water of the fill phase: min(soilVolume, waterGain + yesterday)
fill_value(waterGain, yesterdays_soil_water) ==
    Min(soilVolume, waterGain + yesterdays_soil_water)

\* mutant: the net water is cut at soilVolume only
steady_value_no_floor(yesterdays_soil_water, evaporationLoss, waterGain) ==
    Min(yesterdays_soil_water - evaporationLoss + waterGain, soilVolume)

\* current_soil_water of the steady-state phase
steady_value(yesterdays_soil_water, evaporationLoss, waterGain) ==
    LET netWater == yesterdays_soil_water - evaporationLoss + waterGain
    IN Max(Min(netWater, soilVolume), 0)

\* initial_days = set(trial_dates[:14])
initial_days == {trial_dates[k] : k \in 1..Min(InitialDays, Len(trial_dates))}

\* mutant: the shelter lets the rain through
fill_gain_standard(shelter, day, treatment, irri_amount) ==
    Get(precipitation, day, 0) + irri_amount

\* waterGain of one treatment in the fill phase; the shelter keeps the rain
\* off the stress plots
fill_gain(shelter, day, treatment, irri_amount) ==
    IF shelter /\ treatment = "stress" THEN irri_amount
    ELSE Get(precipitation, day, 0) + irri_amount

\* mutant: every treatment reads its own series on every date
lookup_treatment_own(shelter, day, treatment) == treatment

\* the treatment whose previous-day value is read
lookup_treatment(shelter, day, treatment) ==
    IF shelter /\ day \notin initial_days /\ day = trial_dates[InitialDays + 1]
    THEN "control" ELSE treatment

\* one assignment soil_water[day][treatment] = current_soil_water;
\* st = [sw, lk, err]
set_day_value(st, shelter, day, treatment, irri_amount) ==
    LET lt == lookup_treatment(shelter, day, treatment)
        y == yesterdays_soil_value(st.sw, day, lt)
        v == IF day \in initial_days
             THEN fill_value(fill_gain(shelter, day, treatment, irri_amount), y)
             ELSE steady_value(y, Get(evaporation, day, 0),
                               Get(precipitation, day, 0) + irri_amount)
    IN [sw |-> Put(st.sw, day, treatment, v),
        lk |-> st.lk \cup {<<day, lt, y>>},
        err |-> FALSE]

\* for irri_amount, treatment_id in irrigation[day]: ...
RECURSIVE irrigated_day(_, _, _, _, _)
irrigated_day(st, shelter, day, entries, k) ==
    IF k > Len(entries) THEN st
    ELSE LET treatment == treatment_type(entries[k][2])
         IN IF treatment = "ValueError" THEN [st EXCEPT !.err = TRUE]
            ELSE irrigated_day(
                    set_day_value(st, shelter, day, treatment, entries[k][1]),
                    shelter, day, entries, k + 1)

\* for treatment in treatments: ... (no irrigation on that day)
unirrigated_day(st, shelter, day) ==
    set_day_value(set_day_value(st, shelter, day, treatments[1], 0),
                  shelter, day, treatments[2], 0)

\* defaultdict.__getitem__: reading a missing key inserts it with the default
getitem(dict, key) ==
    IF key \in DOMAIN dict THEN dict ELSE dict @@ (key :> <<>>)

\* mutant: irrigation[day] is read on every day
irrigation_read_always(irri, day) == getitem(irri, day)

\* the irrigation map after the iteration of a day: irrigation[day] is read
\* under "if day in irrigation" only
irrigation_read(irri, day) ==
    IF day \in DOMAIN irri THEN getitem(irri, day) ELSE irri

\* the body of "for day in trial_dates" of get_soil_water (shelter = FALSE)
\* and of get_shelter_soil_water (shelter = TRUE)
soil_day(st, shelter, day, irri) ==
    IF day \in DOMAIN irri
    THEN irrigated_day(st, shelter, day, irri[day], 1)
    ELSE unirrigated_day(st, shelter, day)

\* mutant: the flowering date itself counts as before
is_before_inclusive(day, flowering) == day <= flowering

\* if day < flowering_date: ... else: (day >= flowering_date)
is_before(day, flowering) == day < flowering

\* mutant: a level equal to the threshold counts as well
stress_days_inclusive(sw, treatment) ==
    LET stressed == {d \in DOMAIN sw : Get(sw[d], treatment, 0) <= stress_threshold}
    IN <<Cardinality({d \in stressed : is_before(d, flowering_date)}),
         Cardinality({d \in stressed : ~is_before(d, flowering_date)})>>

\* stress_days(soil_values, flowering_date, stress_threshold), with
\* soil_values = {date: soil_water[date][treatment] for date in soil_water}
stress_days(sw, treatment) ==
    LET stressed == {d \in DOMAIN sw : Get(sw[d], treatment, 0) < stress_threshold}
    IN <<Cardinality({d \in stressed : is_before(d, flowering_date)}),
         Cardinality({d \in stressed : ~is_before(d, flowering_date)})>>

\* mutant: every dict counts as filled
bool_always(dict) == TRUE

\* the truth value Python gives a dict: an empty one is false
bool(dict) == dict # <<>>

\* soil_water[date][treatment] read for every date: defaultdict(float) creates
\* the missing entries as 0.0
with_defaults(sw, read) ==
    [d \in DOMAIN sw |->
        [t \in DOMAIN sw[d] \cup read |-> Get(sw[d], t, 0)]]

\* ------------------------------------------------------------------------
\* Inputs: the rows the database returns for one trial
\* ------------------------------------------------------------------------
PrecRows == {<<"prec", d, a, 0>> : d \in PrecDates, a \in PrecAmounts}
IrriRows ==
    {<<"irri", d, a, t>> : d \in IrriDates, a \in IrriAmounts, t \in TreatmentIds}
    \cup {<<"irri", EarlyDate, 1, t>> : t \in EarlyTreatmentIds}
RowSeqs == UNION {[1..n -> PrecRows \cup IrriRows] : n \in 0..MaxRows}

\* precipitation = {date: precip for (date, precip) in CURSOR.fetchall()}
precipitation_of(rows) ==
    LET idx == {k \in 1..Len(rows) : rows[k][1] = "prec"}
        last(d) == CHOOSE k \in idx : rows[k][2] = d
                      /\ \A j \in idx : rows[j][2] = d => j <= k
    IN [d \in {rows[k][2] : k \in idx} |-> rows[last(d)][3]]

\* irrigation[date].append( (irri_amount, treatment_id) )
irrigation_of(rows) ==
    LET idx == {k \in 1..Len(rows) : rows[k][1] = "irri"}
        of(d) == SelectSeq(rows, LAMBDA r : r[1] = "irri" /\ r[2] = d)
    IN [d \in {rows[k][2] : k \in idx} |->
            [k \in 1..Len(of(d)) |-> <<of(d)[k][3], of(d)[k][4]>>]]

\* the list without one date
RECURSIVE without(_, _)
without(dates, gap) ==
    IF dates = <<>> THEN <<>>
    ELSE IF Head(dates) = gap THEN without(Tail(dates), gap)
    ELSE <<Head(dates)>> \o without(Tail(dates), gap)

\* windows handed to the simulation: get_trial_daterange's result for a trial
\* longer and for a trial shorter than the fill phase, and the long list
\* with a date missing
TrialWindows ==
    {generate_daterange(1, LastDate), generate_daterange(1, 2),
     without(generate_daterange(1, LastDate), 2)}

\* results of get_evaporation: none, every date, every date but one
EvapMaps ==
    {<<>>} \cup {[d \in S |-> e] : S \in {1..LastDate, (1..LastDate) \ {15}},
                                  e \in EvapAmounts}

\* ------------------------------------------------------------------------
\* get_drought_stress_days
\* ------------------------------------------------------------------------
\* the variables of the other specifications, at rest
DatesIdle ==
    /\ rpc = "idle"
    /\ start_date = 0
    /\ end_date = 0
    /\ current = 0
    /\ daterange = <<>>
    /\ date_list = <<>>
    /\ answer = ""

LegacyIdle == legacy_soil_water = <<>> /\ legacy_pc = "idle"

BatchIdle ==
    /\ input_file = <<>>
    /\ line_no = 1
    /\ output_file = <<>>
    /\ stderr = <<>>
    /\ bpc = "idle"
    /\ formatted = <<>>

\* no name CURSOR is bound before the first connection
NoCursor == [bound |-> FALSE, executed |-> ""]

CallIdle ==
    /\ CONNECTED_TO_DB = FALSE
    /\ CURSOR = NoCursor
    /\ snapshot = <<>>
    /\ call_no = 0
    /\ first_outcome = <<>>

RestIdle == DatesIdle /\ LegacyIdle /\ BatchIdle /\ CallIdle

PairIdle == irrigation2 = <<>> /\ soil_water2 = <<>>

EvapIdle ==
    /\ climate_data = <<>>
    /\ epc = "idle"
    /\ row = 1
    /\ daily_vpd = <<>>
    /\ daily_windspeed = <<>>
    /\ days_left = {}
    /\ daily_evaporation = <<>>
    /\ emissions = <<>>

\* no result of get_drought_stress_days and of get_climate_data yet
ReportIdle == per_treatment = FALSE /\ report = <<>> /\ output_line = <<>>

TempIdle ==
    /\ tub = 30
    /\ tlb = 8
    /\ tpc = "idle"
    /\ trow = 1
    /\ dailyMinMaxTemp = <<>>
    /\ tdays_left = {}
    /\ cold_before = <<>>
    /\ cold_after = <<>>
    /\ heat_before = <<>>
    /\ heat_after = <<>>
    /\ tempStressDays = <<>>
    /\ contributions = <<>>

LightIdle ==
    /\ light_data = <<>>
    /\ lpc = "idle"
    /\ lrow = 1
    /\ dailyLight = <<>>
    /\ ldays_left = {}
    /\ L1 = <<>>
    /\ L2 = <<>>
    /\ lightIntensity = <<>>
    /\ scores = <<>>

Init ==
    /\ culture_id \in Cultures
    /\ trial_dates \in TrialWindows
    /\ \E rows \in RowSeqs :
          /\ precipitation = precipitation_of(rows)
          /\ irrigation = irrigation_of(rows)
    /\ evaporation \in EvapMaps
    /\ soilVolume \in SoilVolumes
    /\ flowering_date \in FloweringDates
    /\ stress_threshold \in StressThresholds
    /\ pc = "start"
    /\ i = 1
    /\ soil_water = <<>>
    /\ lookups = {}
    /\ droughtStressDays = <<>>
    /\ ReportIdle
    /\ RestIdle
    /\ PairIdle
    /\ EvapIdle
    /\ TempIdle
    /\ LightIdle

\* evaporation = get_evaporation(climate_data); assert evaporation
Begin ==
    /\ pc = "start"
    /\ pc' = IF evaporation = <<>> THEN "error" ELSE "soil"
    /\ UNCHANGED <<inputs, i, soil_water, lookups, droughtStressDays, report_vars>>
    /\ UNCHANGED <<pair_vars, evap_vars, temp_vars, light_vars,
                   rest_vars>>

\* one iteration of "for day in trial_dates"
SoilDay ==
    /\ pc = "soil"
    /\ i <= Len(trial_dates)
    /\ LET st == soil_day([sw |-> soil_water, lk |-> lookups, err |-> FALSE],
                          culture_id \in ShelterCultures, trial_dates[i],
                          irrigation)
       IN /\ soil_water' = st.sw
          /\ lookups' = st.lk
          /\ pc' = IF st.err THEN "error" ELSE "soil"
    /\ irrigation' = irrigation_read(irrigation, trial_dates[i])
    /\ i' = i + 1
    /\ UNCHANGED <<culture_id, trial_dates, precipitation, evaporation,
                   soilVolume, flowering_date, stress_threshold>>
    /\ UNCHANGED <<droughtStressDays, report_vars>>
    /\ UNCHANGED <<pair_vars, evap_vars, temp_vars, light_vars,
                   rest_vars>>

\* return soil_water: the loop of get_soil_water / get_shelter_soil_water is over
ReturnSoilWater ==
    /\ pc = "soil"
    /\ i > Len(trial_dates)
    /\ pc' = "count"
    /\ UNCHANGED <<inputs, i, soil_water, lookups, droughtStressDays, report_vars>>
    /\ UNCHANGED <<pair_vars, evap_vars, temp_vars, light_vars,
                   rest_vars>>

\* the tail of get_drought_stress_days: the per-treatment series are read from
\* the defaultdict (a missing treatment is created as 0.0) and counted
CountStressDays ==
    /\ pc = "count"
    /\ LET both == bool(irrigation) /\ culture_id \notin UndistinguishedCultures
           read == IF both THEN {"control", "stress"} ELSE {"control"}
       IN /\ droughtStressDays' =
                IF both
                THEN <<stress_days(soil_water, "control"),
                       stress_days(soil_water, "stress")>>
                ELSE stress_days(soil_water, "control")
          /\ soil_water' = with_defaults(soil_water, read)
          /\ per_treatment' = both
    /\ pc' = "done"
    /\ UNCHANGED <<inputs, i, lookups, report, output_line>>
    /\ UNCHANGED <<pair_vars, evap_vars, temp_vars, light_vars,
                   rest_vars>>

\* what get_light_intensity(lightData) does for the rows DAYLIGHT_QUERY
\* returns: it raises or it returns a 2-tuple
LightOutcomes == {"ZeroDivisionError", "lightIntensity"}

\* the 4-tuple get_temp_stress_days and the 2-tuple get_light_intensity hand
\* to the report
TempResults == {<<4, 0, 3, 1>>}
LightResults == {<<600, 100>>}

\* the outcomes of get_light_intensity on the rows DAYLIGHT_QUERY returns:
\* any, where the rows are not part of the state, else that of the snapshot
light_outcomes == IF call_no = 0 THEN LightOutcomes ELSE {snapshot.light}

\* the tail of get_climate_data: the light intensity is computed,
\* has_irrigation = True if irrigation else False, and the report is returned
ReturnClimateData ==
    /\ pc = "done"
    /\ \E light \in light_outcomes :
          IF light = "ZeroDivisionError"
          THEN pc' = "light_error" /\ UNCHANGED report
          ELSE /\ pc' = "returned"
               /\ \E temp \in TempResults, intensity \in LightResults :
                     report' = [has_irrigation |-> bool(irrigation),
                                tempStressDays |-> temp,
                                droughtStressDays |-> droughtStressDays,
                                per_treatment |-> per_treatment,
                                lightIntensity |-> intensity]
    /\ UNCHANGED <<inputs, i, soil_water, lookups, droughtStressDays,
                   per_treatment, output_line>>
    /\ UNCHANGED <<pair_vars, evap_vars, temp_vars, light_vars,
                   rest_vars>>

\* '{}'.format(number)
str(number) == ToString(number)

\* the six fields after the drought fields: cold_before, cold_after,
\* heat_before, heat_after, light_before, light_after
climate_fields(r) ==
    <<str(r.tempStressDays[1]), str(r.tempStressDays[2]),
      str(r.tempStressDays[3]), str(r.tempStressDays[4]),
      str(r.lightIntensity[1]), str(r.lightIntensity[2])>>

\* mutant: the drought counts are written to the plain fields whatever
\* has_irrigation says
format_climate_data_plain(r) ==
    [raised |-> "",
     line |-> <<str(r.droughtStressDays[1]), str(r.droughtStressDays[2]),
                "NA", "NA", "NA", "NA">> \o climate_fields(r)]

\* format_climate_data(climate_data): the fields of the line, in the order
\* of climate_str; control_dsds[0] on a number raises TypeError
format_climate_data(r) ==
    IF r.has_irrigation
    THEN IF r.per_treatment
         THEN [raised |-> "",
               line |-> <<"NA", "NA",
                          str(r.droughtStressDays[1][1]),
                          str(r.droughtStressDays[1][2]),
                          str(r.droughtStressDays[2][1]),
                          str(r.droughtStressDays[2][2])>> \o climate_fields(r)]
         ELSE [raised |-> "TypeError", line |-> <<>>]
    ELSE [raised |-> "",
          line |-> <<str(r.droughtStressDays[1]), str(r.droughtStressDays[2]),
                     "NA", "NA", "NA", "NA">> \o climate_fields(r)]

\* args.output_file.write(format_climate_data(climate_data)) inside try/except
FormatClimateData ==
    /\ pc = "returned"
    /\ LET out == format_climate_data(report)
       IN IF out.raised # ""
          THEN pc' = "format_error" /\ UNCHANGED output_line
          ELSE pc' = "written" /\ output_line' = out.line
    /\ UNCHANGED <<inputs, i, soil_water, lookups, droughtStressDays,
                   per_treatment, report>>
    /\ UNCHANGED <<pair_vars, evap_vars, temp_vars, light_vars,
                   rest_vars>>

Next ==
    \/ Begin
    \/ SoilDay
    \/ ReturnSoilWater
    \/ CountStressDays
    \/ ReturnClimateData
    \/ FormatClimateData

Spec == Init /\ [][Next]_vars

\* the same run for the two trials under the rain-exclusion shelter:
\* get_drought_stress_days hands them to get_shelter_soil_water
InitShelter ==
    /\ culture_id \in ShelterCultures
    /\ trial_dates \in TrialWindows
    /\ \E rows \in RowSeqs :
          /\ precipitation = precipitation_of(rows)
          /\ irrigation = irrigation_of(rows)
    /\ evaporation \in EvapMaps
    /\ soilVolume \in SoilVolumes
    /\ flowering_date \in FloweringDates
    /\ stress_threshold \in StressThresholds
    /\ pc = "start"
    /\ i = 1
    /\ soil_water = <<>>
    /\ lookups = {}
    /\ droughtStressDays = <<>>
    /\ ReportIdle
    /\ RestIdle
    /\ PairIdle
    /\ EvapIdle
    /\ TempIdle
    /\ LightIdle

SpecShelter == InitShelter /\ [][Next]_vars

\* ------------------------------------------------------------------------
\* The same run on a short trial, the whole window within the fill phase,
\* with irrigation in the middle of it
\* ------------------------------------------------------------------------
FillSpan == 3

FillPrecRows == {<<"prec", d, a, 0>> : d \in 1..FillSpan, a \in {-1, 2}}
FillIrriRows == {<<"irri", d, 1, t>> : d \in 2..FillSpan, t \in {169, 170, 172}}
FillRowSeqs == UNION {[1..n -> FillPrecRows \cup FillIrriRows] : n \in 0..MaxRows}
FillEvapMaps == {[d \in 1..FillSpan |-> e] : e \in {0, 3}}

InitFill ==
    /\ culture_id \in Cultures
    /\ trial_dates = generate_daterange(1, FillSpan)
    /\ \E rows \in FillRowSeqs :
          /\ precipitation = precipitation_of(rows)
          /\ irrigation = irrigation_of(rows)
    /\ evaporation \in FillEvapMaps
    /\ soilVolume \in SoilVolumes
    /\ flowering_date \in FloweringDates
    /\ stress_threshold \in StressThresholds
    /\ pc = "start"
    /\ i = 1
    /\ soil_water = <<>>
    /\ lookups = {}
    /\ droughtStressDays = <<>>
    /\ ReportIdle
    /\ RestIdle
    /\ PairIdle
    /\ EvapIdle
    /\ TempIdle
    /\ LightIdle

SpecFill == InitFill /\ [][Next]_vars

\* ------------------------------------------------------------------------
\* Two runs of get_soil_water on inputs that differ in the irrigation
\* records of the control treatment only
\* ------------------------------------------------------------------------
ValidRowSeqs ==
    UNION {[1..n -> PrecRows \cup {r \in IrriRows : r[4] \in CONTROL \cup {STRESS}}] :
              n \in 0..MaxRows}

\* what the second run does with each row of the first
RowChoices(rows) ==
    {c \in [1..Len(rows) -> {"keep", "drop", "change"}] :
        \A k \in 1..Len(rows) :
            c[k] # "keep" => (rows[k][1] = "irri" /\ rows[k][4] \in CONTROL)}

RECURSIVE apply_choices(_, _, _)
apply_choices(rows, c, k) ==
    IF k > Len(rows) THEN <<>>
    ELSE (CASE c[k] = "keep" -> <<rows[k]>>
            [] c[k] = "drop" -> <<>>
            [] c[k] = "change" ->
                 <<[rows[k] EXCEPT ![3] = CHOOSE a \in IrriAmounts : a # rows[k][3]]>>)
         \o apply_choices(rows, c, k + 1)

InitPair ==
    /\ culture_id \in Cultures \ ShelterCultures
    /\ trial_dates = generate_daterange(1, LastDate)
    /\ \E rows \in ValidRowSeqs :
          /\ precipitation = precipitation_of(rows)
          /\ irrigation = irrigation_of(rows)
          /\ \E c \in RowChoices(rows) :
                irrigation2 = irrigation_of(apply_choices(rows, c, 1))
    /\ evaporation \in EvapMaps \ {<<>>}
    /\ soilVolume \in SoilVolumes
    /\ flowering_date \in FloweringDates
    /\ stress_threshold \in StressThresholds
    /\ pc = "soil"
    /\ i = 1
    /\ soil_water = <<>>
    /\ soil_water2 = <<>>
    /\ lookups = {}
    /\ droughtStressDays = <<>>
    /\ ReportIdle
    /\ RestIdle
    /\ EvapIdle
    /\ TempIdle
    /\ LightIdle

\* one iteration of "for day in trial_dates", in both runs
PairDay ==
    /\ pc = "soil"
    /\ i <= Len(trial_dates)
    /\ LET st == soil_day([sw |-> soil_water, lk |-> lookups, err |-> FALSE],
                          FALSE, trial_dates[i], irrigation)
           st2 == soil_day([sw |-> soil_water2, lk |-> {}, err |-> FALSE],
                           FALSE, trial_dates[i], irrigation2)
       IN /\ soil_water' = st.sw
          /\ lookups' = st.lk
          /\ soil_water2' = st2.sw
    /\ i' = i + 1
    /\ UNCHANGED <<inputs, pc, droughtStressDays, report_vars, irrigation2>>
    /\ UNCHANGED <<evap_vars, temp_vars, light_vars,
                   rest_vars>>

\* return soil_water, in both runs
PairReturn ==
    /\ pc = "soil"
    /\ i > Len(trial_dates)
    /\ pc' = "count"
    /\ UNCHANGED <<inputs, i, soil_water, lookups, droughtStressDays, report_vars>>
    /\ UNCHANGED <<pair_vars, evap_vars, temp_vars, light_vars,
                   rest_vars>>

NextPair == PairDay \/ PairReturn

SpecPair == InitPair /\ [][NextPair]_vars

\* ------------------------------------------------------------------------
\* get_evaporation
\* ------------------------------------------------------------------------
\* number of hourly readings of one trial
MaxReadings == 2

\* an hourly value: None is <<>>, the number v is <<v>>
None == <<>>
Some(v) == <<v>>

ClimateDates == {1, 2}
Temperatures == {None, Some(0), Some(20)}
Windspeeds == {None, Some(0), Some(3)}
Humidities == {None, Some(0), Some(50)}

ClimateRows ==
    {<<d, t, w, h>> : d \in ClimateDates, t \in Temperatures,
                      w \in Windspeeds, h \in Humidities}
ClimateData == UNION {[1..n -> ClimateRows] : n \in 0..MaxReadings}

\* the truth value Python gives an hourly value: None and 0.0 are false
truth(x) == x # None /\ x[1] # 0

\* saturation vapour pressure 0.61365 * exp(17.502 * T / (240.97 + T)) in Pa,
\* tabulated for the temperatures of the model
vp_sat(t_celsius) ==
    CASE t_celsius = 0 -> 614
      [] t_celsius = 20 -> 2347

\* calc_VPD(temperature, humidity/100.0), in Pa; humidity in percent
calc_VPD(t_celsius, humidity) ==
    vp_sat(t_celsius) - (vp_sat(t_celsius) * humidity) \div 100

RECURSIVE sum(_)
sum(numbers) ==
    IF numbers = <<>> THEN 0 ELSE Head(numbers) + sum(Tail(numbers))

\* mean(numbers) = sum(numbers) / float(len(numbers)), as a fraction
mean(numbers) == <<sum(numbers), Len(numbers)>>

\* penman_evaporation(vpd, windspeed): the power law
\* 0.376 * vpd * (windspeed * ms_to_mph) ** 0.76 is kept as its two arguments
penman_evaporation(vpd, windspeed) == [vpd |-> vpd, windspeed |-> windspeed]

\* if temperature and humidity:
has_vpd(temperature, humidity) == truth(temperature) /\ truth(humidity)

\* if windspeed:
has_windspeed(windspeed) == truth(windspeed)

\* mutant: one of the two means is enough
can_calculate_either(vpd, wind, day) == day \in DOMAIN vpd \/ day \in DOMAIN wind

\* if day in daily_vpd and day in daily_windspeed:
can_calculate(vpd, wind, day) == day \in DOMAIN vpd /\ day \in DOMAIN wind

\* defaultdict(list): dict[key].append(value)
append_to(dict, key, value) ==
    (key :> Append(Get(dict, key, <<>>), value)) @@ dict

InitEvap ==
    /\ climate_data \in ClimateData
    /\ epc = "rows"
    /\ row = 1
    /\ daily_vpd = <<>>
    /\ daily_windspeed = <<>>
    /\ days_left = {}
    /\ daily_evaporation = <<>>
    /\ emissions = <<>>
    /\ culture_id = 56878
    /\ trial_dates = <<>>
    /\ precipitation = <<>>
    /\ evaporation = <<>>
    /\ irrigation = <<>>
    /\ soilVolume \in SoilVolumes
    /\ flowering_date \in FloweringDates
    /\ stress_threshold \in StressThresholds
    /\ pc = "idle"
    /\ i = 1
    /\ soil_water = <<>>
    /\ lookups = {}
    /\ droughtStressDays = <<>>
    /\ ReportIdle
    /\ RestIdle
    /\ PairIdle
    /\ TempIdle
    /\ LightIdle

\* one iteration of "for date_time, temperature, windspeed, humidity in
\* climate_data"
EvapRow ==
    /\ epc = "rows"
    /\ row <= Len(climate_data)
    /\ LET day == climate_data[row][1]
           temperature == climate_data[row][2]
           windspeed == climate_data[row][3]
           humidity == climate_data[row][4]
       IN /\ daily_vpd' =
                IF has_vpd(temperature, humidity)
                THEN append_to(daily_vpd, day, calc_VPD(temperature[1], humidity[1]))
                ELSE daily_vpd
          /\ daily_windspeed' =
                IF has_windspeed(windspeed)
                THEN append_to(daily_windspeed, day, windspeed[1])
                ELSE daily_windspeed
    /\ row' = row + 1
    /\ UNCHANGED <<climate_data, epc, days_left, daily_evaporation, emissions>>
    /\ UNCHANGED <<soil_vars, pair_vars, temp_vars, light_vars,
                   rest_vars>>

\* the loop over the rows is over: for day in set(dates)
EvapDays ==
    /\ epc = "rows"
    /\ row > Len(climate_data)
    /\ epc' = "days"
    /\ days_left' = {climate_data[k][1] : k \in 1..Len(climate_data)}
    /\ UNCHANGED <<climate_data, row, daily_vpd, daily_windspeed,
                   daily_evaporation, emissions>>
    /\ UNCHANGED <<soil_vars, pair_vars, temp_vars, light_vars,
                   rest_vars>>

\* one iteration of "for day in set(dates)", in the order the set gives
EvapDay ==
    /\ epc = "days"
    /\ \E day \in days_left :
          /\ days_left' = days_left \ {day}
          /\ IF can_calculate(daily_vpd, daily_windspeed, day)
             THEN LET e == penman_evaporation(mean(Get(daily_vpd, day, <<>>)),
                                              mean(Get(daily_windspeed, day, <<>>)))
                  IN /\ daily_evaporation' = (day :> e) @@ daily_evaporation
                     /\ emissions' = Append(emissions, <<day, e>>)
             ELSE UNCHANGED <<daily_evaporation, emissions>>
    /\ UNCHANGED <<climate_data, epc, row, daily_vpd, daily_windspeed>>
    /\ UNCHANGED <<soil_vars, pair_vars, temp_vars, light_vars,
                   rest_vars>>

\* return daily_evaporation
EvapReturn ==
    /\ epc = "days"
    /\ days_left = {}
    /\ epc' = "done"
    /\ UNCHANGED <<climate_data, row, daily_vpd, daily_windspeed, days_left,
                   daily_evaporation, emissions>>
    /\ UNCHANGED <<soil_vars, pair_vars, temp_vars, light_vars,
                   rest_vars>>

NextEvap == EvapRow \/ EvapDays \/ EvapDay \/ EvapReturn

SpecEvap == InitEvap /\ [][NextEvap]_vars

\* ------------------------------------------------------------------------
\* get_temp_stress_days
\* ------------------------------------------------------------------------
\* dailyMinMaxTemp starts at [1000.0, -1000.0]
InitialMin == 1000
InitialMax == -1000

\* mutant: the extremes start at zero
initial_extremes_zero == <<0, 0>>

initial_extremes == <<InitialMin, InitialMax>>

\* the defaults tub=30.0, tlb=8.0 and bounds beyond the initial values
UpperBounds == {30, -1001}
LowerBounds == {8, 1001}

\* dates before and on the flowering date
TempDates == {14, 15}
TempReadings == {None, Some(0), Some(5), Some(8), Some(35)}
TempRows == {<<d, t, None, None>> : d \in TempDates, t \in TempReadings}
TempData == UNION {[1..n -> TempRows] : n \in 0..MaxReadings}

abs(x) == IF x < 0 THEN -x ELSE x

\* mutant: a day at the lower bound counts as cold
coldStress_inclusive(tMin, lower) == tMin <= lower

\* coldStress, heatStress = tMin < tlb, tMax > tub
coldStress(tMin, lower) == tMin < lower
heatStress(tMax, upper) == tMax > upper

InitTemp ==
    /\ climate_data \in TempData
    /\ tub \in UpperBounds
    /\ tlb \in LowerBounds
    /\ flowering_date \in FloweringDates
    /\ tpc = "rows"
    /\ trow = 1
    /\ dailyMinMaxTemp =
          [d \in {climate_data[k][1] : k \in 1..Len(climate_data)} |->
              initial_extremes]
    /\ tdays_left = {}
    /\ cold_before = <<>>
    /\ cold_after = <<>>
    /\ heat_before = <<>>
    /\ heat_after = <<>>
    /\ tempStressDays = <<>>
    /\ contributions = <<>>
    /\ culture_id = 56878
    /\ trial_dates = <<>>
    /\ precipitation = <<>>
    /\ evaporation = <<>>
    /\ irrigation = <<>>
    /\ soilVolume \in SoilVolumes
    /\ stress_threshold \in StressThresholds
    /\ pc = "idle"
    /\ i = 1
    /\ soil_water = <<>>
    /\ lookups = {}
    /\ droughtStressDays = <<>>
    /\ ReportIdle
    /\ RestIdle
    /\ PairIdle
    /\ epc = "idle"
    /\ row = 1
    /\ daily_vpd = <<>>
    /\ daily_windspeed = <<>>
    /\ days_left = {}
    /\ daily_evaporation = <<>>
    /\ emissions = <<>>
    /\ LightIdle

\* one iteration of "for row in climate_data"
TempRow ==
    /\ tpc = "rows"
    /\ trow <= Len(climate_data)
    /\ LET date_ == climate_data[trow][1]
           temp == climate_data[trow][2]
       IN dailyMinMaxTemp' =
             IF truth(temp)
             THEN (date_ :> <<Min(temp[1], dailyMinMaxTemp[date_][1]),
                              Max(temp[1], dailyMinMaxTemp[date_][2])>>)
                  @@ dailyMinMaxTemp
             ELSE dailyMinMaxTemp
    /\ trow' = trow + 1
    /\ UNCHANGED <<tub, tlb, tpc, tdays_left, cold_before, cold_after,
                   heat_before, heat_after, tempStressDays, contributions>>
    /\ UNCHANGED <<soil_vars, pair_vars, evap_vars, light_vars, rest_vars>>

\* the loop over the rows is over: for day in dailyMinMaxTemp
TempDays ==
    /\ tpc = "rows"
    /\ trow > Len(climate_data)
    /\ tpc' = "days"
    /\ tdays_left' = DOMAIN dailyMinMaxTemp
    /\ UNCHANGED <<tub, tlb, trow, dailyMinMaxTemp, cold_before, cold_after,
                   heat_before, heat_after, tempStressDays, contributions>>
    /\ UNCHANGED <<soil_vars, pair_vars, evap_vars, light_vars, rest_vars>>

\* list.append(value) when the condition holds
append_if(cond, list, value) == IF cond THEN Append(list, value) ELSE list

\* one iteration of "for day in dailyMinMaxTemp", in the order the dict gives
TempDay ==
    /\ tpc = "days"
    /\ \E day \in tdays_left :
          LET tMin == dailyMinMaxTemp[day][1]
              tMax == dailyMinMaxTemp[day][2]
              cold == coldStress(tMin, tlb)
              heat == heatStress(tMax, tub)
              before == is_before(day, flowering_date)
          IN /\ tdays_left' = tdays_left \ {day}
             /\ cold_before' = append_if(before /\ cold, cold_before, abs(tlb - tMin))
             /\ heat_before' = append_if(before /\ heat, heat_before, abs(tMax - tub))
             /\ cold_after' = append_if(~before /\ cold, cold_after, abs(tlb - tMin))
             /\ heat_after' = append_if(~before /\ heat, heat_after, abs(tMax - tub))
             /\ contributions' =
                   append_if(heat,
                       append_if(cold, contributions,
                           <<day, IF before THEN "cold_before" ELSE "cold_after",
                             abs(tlb - tMin)>>),
                       <<day, IF before THEN "heat_before" ELSE "heat_after",
                         abs(tMax - tub)>>)
    /\ UNCHANGED <<tub, tlb, tpc, trow, dailyMinMaxTemp, tempStressDays>>
    /\ UNCHANGED <<soil_vars, pair_vars, evap_vars, light_vars, rest_vars>>

\* return tuple(sum(...) for ... in (cold_before, cold_after, heat_before,
\* heat_after))
TempReturn ==
    /\ tpc = "days"
    /\ tdays_left = {}
    /\ tpc' = "done"
    /\ tempStressDays' =
          <<sum(cold_before), sum(cold_after), sum(heat_before), sum(heat_after)>>
    /\ UNCHANGED <<tub, tlb, trow, dailyMinMaxTemp, tdays_left, cold_before,
                   cold_after, heat_before, heat_after, contributions>>
    /\ UNCHANGED <<soil_vars, pair_vars, evap_vars, light_vars, rest_vars>>

NextTemp == TempRow \/ TempDays \/ TempDay \/ TempReturn

SpecTemp == InitTemp /\ [][NextTemp]_vars

\* ------------------------------------------------------------------------
\* get_light_intensity
\* ------------------------------------------------------------------------
\* number of hourly radiation readings of one trial
MaxLight == 3

\* two dates before the flowering date and the flowering date itself
LightDates == {13, 14, 15}
Radiations == {-1, 0, 100, 200}
LightRows == {<<d, r>> : d \in LightDates, r \in Radiations}
LightData == UNION {[1..n -> LightRows] : n \in 0..MaxLight}

\* mutant: the sum of the readings alone
daily_score_sum_only(readings) == sum(readings)

\* sum(dailyLight[day]) * len(dailyLight[day])
daily_score(readings) == sum(readings) * Len(readings)

\* if row[1] > 0.0:
is_light(radiation) == radiation > 0

InitLight ==
    /\ light_data \in LightData
    /\ flowering_date \in FloweringDates
    /\ lpc = "rows"
    /\ lrow = 1
    /\ dailyLight = [d \in {light_data[k][1] : k \in 1..Len(light_data)} |-> <<>>]
    /\ ldays_left = {}
    /\ L1 = <<>>
    /\ L2 = <<>>
    /\ lightIntensity = <<>>
    /\ scores = <<>>
    /\ culture_id = 56878
    /\ trial_dates = <<>>
    /\ precipitation = <<>>
    /\ evaporation = <<>>
    /\ irrigation = <<>>
    /\ soilVolume \in SoilVolumes
    /\ stress_threshold \in StressThresholds
    /\ pc = "idle"
    /\ i = 1
    /\ soil_water = <<>>
    /\ lookups = {}
    /\ droughtStressDays = <<>>
    /\ ReportIdle
    /\ RestIdle
    /\ PairIdle
    /\ EvapIdle
    /\ TempIdle

\* one iteration of "for row in light_data"
LightRow ==
    /\ lpc = "rows"
    /\ lrow <= Len(light_data)
    /\ dailyLight' =
          IF is_light(light_data[lrow][2])
          THEN append_to(dailyLight, light_data[lrow][1], light_data[lrow][2])
          ELSE dailyLight
    /\ lrow' = lrow + 1
    /\ UNCHANGED <<light_data, lpc, ldays_left, L1, L2, lightIntensity, scores>>
    /\ UNCHANGED <<soil_vars, pair_vars, evap_vars, temp_vars, rest_vars>>

\* the loop over the rows is over: for day in dailyLight
LightDays ==
    /\ lpc = "rows"
    /\ lrow > Len(light_data)
    /\ lpc' = "days"
    /\ ldays_left' = DOMAIN dailyLight
    /\ UNCHANGED <<light_data, lrow, dailyLight, L1, L2, lightIntensity, scores>>
    /\ UNCHANGED <<soil_vars, pair_vars, evap_vars, temp_vars, rest_vars>>

\* one iteration of "for day in dailyLight", in the order the dict gives
LightDay ==
    /\ lpc = "days"
    /\ \E day \in ldays_left :
          LET score == daily_score(dailyLight[day])
          IN /\ ldays_left' = ldays_left \ {day}
             /\ IF is_before(day, flowering_date)
                THEN /\ L1' = Append(L1, score)
                     /\ scores' = Append(scores, <<day, "L1", score>>)
                     /\ UNCHANGED L2
                ELSE /\ L2' = Append(L2, score)
                     /\ scores' = Append(scores, <<day, "L2", score>>)
                     /\ UNCHANGED L1
    /\ UNCHANGED <<light_data, lpc, lrow, dailyLight, lightIntensity>>
    /\ UNCHANGED <<soil_vars, pair_vars, evap_vars, temp_vars, rest_vars>>

\* return sum(L1) / len(L1), sum(L2) / len(L2): a quotient is kept as
\* <<numerator, denominator>>, a division by zero raises ZeroDivisionError
LightReturn ==
    /\ lpc = "days"
    /\ ldays_left = {}
    /\ IF Len(L1) = 0 \/ Len(L2) = 0
       THEN lpc' = "error" /\ UNCHANGED lightIntensity
       ELSE /\ lpc' = "done"
            /\ lightIntensity' = <<<<sum(L1), Len(L1)>>, <<sum(L2), Len(L2)>>>>
    /\ UNCHANGED <<light_data, lrow, dailyLight, ldays_left, L1, L2, scores>>
    /\ UNCHANGED <<soil_vars, pair_vars, evap_vars, temp_vars, rest_vars>>

NextLight == LightRow \/ LightDays \/ LightDay \/ LightReturn

SpecLight == InitLight /\ [][NextLight]_vars

\* ------------------------------------------------------------------------
\* The three aggregators that split by the flowering date, each on its own
\* inputs: get_temp_stress_days, get_light_intensity, get_drought_stress_days
\* ------------------------------------------------------------------------
InitAggregators == InitTemp \/ InitLight \/ Init

NextAggregators == NextTemp \/ NextLight \/ Next

SpecAggregators == InitAggregators /\ [][NextAggregators]_vars

\* ------------------------------------------------------------------------
\* get_trial_daterange and generate_daterange
\* ------------------------------------------------------------------------
\* the drought run at rest
SoilIdle ==
    /\ culture_id = 56878
    /\ trial_dates = <<>>
    /\ precipitation = <<>>
    /\ evaporation = <<>>
    /\ irrigation = <<>>
    /\ soilVolume \in SoilVolumes
    /\ flowering_date \in FloweringDates
    /\ stress_threshold \in StressThresholds
    /\ pc = "idle"
    /\ i = 1
    /\ soil_water = <<>>
    /\ lookups = {}
    /\ droughtStressDays = <<>>

\* the rows TRIAL_DATES_QUERY can return: (planted + 14 days, terminated)
TrialStarts == 1..LastDate
TrialEnds == 0..LastDate

\* mutant: include_end_date = False
break_condition_exclusive(cur, end) == cur < end

\* break_condition = 'current <= end' (include_end_date = True)
break_condition(cur, end) == cur <= end

\* start_date, end_date = db_cursor.fetchone(); current = start
InitRange ==
    /\ start_date \in TrialStarts
    /\ end_date \in TrialEnds
    /\ rpc = "gen"
    /\ current = start_date
    /\ daterange = <<>>
    /\ date_list = <<>>
    /\ answer = ""
    /\ LegacyIdle
    /\ BatchIdle
    /\ CallIdle
    /\ SoilIdle
    /\ ReportIdle
    /\ PairIdle
    /\ EvapIdle
    /\ TempIdle
    /\ LightIdle

\* one iteration of "while eval(break_condition)": yield current;
\* current += datetime.timedelta(days=1)
RangeYield ==
    /\ rpc = "gen"
    /\ break_condition(current, end_date)
    /\ daterange' = Append(daterange, current)
    /\ current' = current + 1
    /\ UNCHANGED <<rpc, start_date, end_date, date_list, answer, legacy_vars,
                   batch_vars, call_vars>>
    /\ UNCHANGED <<soil_vars, pair_vars, evap_vars, temp_vars, light_vars>>

\* the generator is exhausted: return list(...)
RangeReturn ==
    /\ rpc = "gen"
    /\ ~break_condition(current, end_date)
    /\ rpc' = "returned"
    /\ UNCHANGED <<start_date, end_date, current, daterange, date_list, answer,
                   legacy_vars, batch_vars, call_vars>>
    /\ UNCHANGED <<soil_vars, pair_vars, evap_vars, temp_vars, light_vars>>

NextRange == RangeYield \/ RangeReturn

SpecRange == InitRange /\ [][NextRange]_vars

\* the interpreter runs the loop on: a step that can be taken is taken
SpecRangeFair == SpecRange /\ WF_vars(NextRange)

\* ------------------------------------------------------------------------
\* are_consecutive
\* ------------------------------------------------------------------------
MaxDates == 3

DateValues == 1..4
DateLists == UNION {[1..n -> DateValues] : n \in 0..MaxDates}

InitConsecutive ==
    /\ date_list \in DateLists
    /\ answer = ""
    /\ rpc = "idle"
    /\ start_date = 0
    /\ end_date = 0
    /\ current = 0
    /\ daterange = <<>>
    /\ LegacyIdle
    /\ BatchIdle
    /\ CallIdle
    /\ SoilIdle
    /\ ReportIdle
    /\ PairIdle
    /\ EvapIdle
    /\ TempIdle
    /\ LightIdle

\* the call are_consecutive(dates); max() of an empty set raises ValueError
AreConsecutive ==
    /\ answer = ""
    /\ answer' = IF date_list = <<>> THEN "ValueError"
                 ELSE IF are_consecutive(date_list) THEN "True" ELSE "False"
    /\ UNCHANGED <<rpc, start_date, end_date, current, daterange, date_list,
                   legacy_vars, batch_vars, call_vars>>
    /\ UNCHANGED <<soil_vars, pair_vars, evap_vars, temp_vars, light_vars>>

NextConsecutive == AreConsecutive

SpecConsecutive == InitConsecutive /\ [][NextConsecutive]_vars

\* ------------------------------------------------------------------------
\* getClimateData.get_soil_water, the simulator behind the batch driver, run
\* beside climate_data.get_soil_water on the same inputs
\* ------------------------------------------------------------------------
\* getClimateData.treatment_type: CONTROL = 169, STRESS = 170
legacy_treatment_type(treatment_id) ==
    IF treatment_id = 169 THEN "control"
    ELSE IF treatment_id = 170 THEN "stress"
    ELSE "ValueError"

\* the nested yesterdays_soil_value(soil_water, day, treatment)
legacy_yesterdays_soil_value(sw, day, treatment) ==
    LET yesterday == day - 1
    IN IF yesterday \in DOMAIN sw
       THEN Get(sw[yesterday], treatment, 0)
       ELSE 0

\* netWater = yesterdays_soil_water + evaporationLoss + waterGain;
\* current_soil_water = max(min(netWater, soilVolume), 0)
legacy_steady_value(yesterdays_soil_water, evaporationLoss, waterGain) ==
    LET netWater == yesterdays_soil_water + evaporationLoss + waterGain
    IN Max(Min(netWater, soilVolume), 0)

\* current_soil_water of a day, from the previous-day value read
legacy_value(day, days, yesterdays_soil_water, waterGain) ==
    IF day \in days
    THEN Min(soilVolume, waterGain + yesterdays_soil_water)
    ELSE legacy_steady_value(yesterdays_soil_water, Get(evaporation, day, 0),
                             waterGain)

\* for irri_amount, treatment_id in irrigation[day]: ...; st = [sw, err]
RECURSIVE legacy_irrigated_day(_, _, _, _, _)
legacy_irrigated_day(st, day, days, entries, k) ==
    IF k > Len(entries) THEN st
    ELSE LET treatment == legacy_treatment_type(entries[k][2])
             waterGain == Get(precipitation, day, 0) + entries[k][1]
             y == legacy_yesterdays_soil_value(st.sw, day, treatment)
         IN IF treatment = "ValueError" THEN [st EXCEPT !.err = TRUE]
            ELSE legacy_irrigated_day(
                    [st EXCEPT !.sw = Put(st.sw, day, treatment,
                                          legacy_value(day, days, y, waterGain))],
                    day, days, entries, k + 1)

\* no irrigation: one value, from yesterday's control value, for both
\* treatments
legacy_unirrigated_day(st, day, days) ==
    LET waterGain == Get(precipitation, day, 0)
        y == legacy_yesterdays_soil_value(st.sw, day, "control")
        v == legacy_value(day, days, y, waterGain)
    IN [st EXCEPT !.sw = Put(Put(st.sw, day, treatments[1], v),
                             day, treatments[2], v)]

\* the body of "for day in dates"
legacy_soil_day(st, day, days, irri) ==
    IF day \in DOMAIN irri
    THEN legacy_irrigated_day(st, day, days, irri[day], 1)
    ELSE legacy_unirrigated_day(st, day, days)

\* sorted(evaporation)
RECURSIVE sorted(_)
sorted(S) ==
    IF S = {} THEN <<>>
    ELSE LET m == CHOOSE x \in S : \A y \in S : x <= y
         IN <<m>> \o sorted(S \ {m})

\* the irrigation records the simulators are compared on: IDs 169 and 170
LegacyRowSeqs ==
    UNION {[1..n -> PrecRows \cup {r \in IrriRows : r[4] \in {169, 170}}] :
              n \in 0..MaxRows}

\* both simulators are handed the same maps; the window of the packaged one
\* is the sorted evaporation dates
InitLegacy ==
    /\ culture_id \in Cultures \ ShelterCultures
    /\ evaporation \in EvapMaps \ {<<>>}
    /\ trial_dates = sorted(DOMAIN evaporation)
    /\ \E rows \in LegacyRowSeqs :
          /\ precipitation = precipitation_of(rows)
          /\ irrigation = irrigation_of(rows)
    /\ soilVolume \in SoilVolumes
    /\ flowering_date \in FloweringDates
    /\ stress_threshold \in StressThresholds
    /\ pc = "start"
    /\ legacy_pc = "start"
    /\ i = 1
    /\ soil_water = <<>>
    /\ legacy_soil_water = <<>>
    /\ lookups = {}
    /\ droughtStressDays = <<>>
    /\ ReportIdle
    /\ DatesIdle
    /\ BatchIdle
    /\ CallIdle
    /\ PairIdle
    /\ EvapIdle
    /\ TempIdle
    /\ LightIdle

\* dates = sorted(evaporation); assert are_consecutive(dates)
LegacyBegin ==
    /\ pc = "start"
    /\ pc' = "soil"
    /\ legacy_pc' = IF are_consecutive(sorted(DOMAIN evaporation))
                    THEN "soil" ELSE "AssertionError"
    /\ UNCHANGED <<inputs, i, soil_water, lookups, droughtStressDays,
                   report_vars, legacy_soil_water>>
    /\ UNCHANGED <<date_vars, batch_vars, call_vars, pair_vars, evap_vars,
                   temp_vars, light_vars>>

\* one iteration of "for day in trial_dates" and of "for day in dates"
LegacyDay ==
    /\ pc = "soil"
    /\ i <= Len(trial_dates)
    /\ LET st == soil_day([sw |-> soil_water, lk |-> lookups, err |-> FALSE],
                          FALSE, trial_dates[i], irrigation)
           dates == sorted(DOMAIN evaporation)
           days == {dates[k] : k \in 1..Min(InitialDays, Len(dates))}
           ls == legacy_soil_day([sw |-> legacy_soil_water, err |-> FALSE],
                                 dates[i], days, irrigation)
       IN /\ soil_water' = st.sw
          /\ lookups' = st.lk
          /\ pc' = IF st.err THEN "error" ELSE "soil"
          /\ IF legacy_pc = "soil"
             THEN /\ legacy_soil_water' = ls.sw
                  /\ legacy_pc' = IF ls.err THEN "ValueError" ELSE "soil"
             ELSE UNCHANGED legacy_vars
    /\ i' = i + 1
    /\ UNCHANGED <<inputs, droughtStressDays, report_vars>>
    /\ UNCHANGED <<date_vars, batch_vars, call_vars, pair_vars, evap_vars,
                   temp_vars, light_vars>>

\* return soil_water, of both
LegacyReturn ==
    /\ pc = "soil"
    /\ i > Len(trial_dates)
    /\ pc' = "count"
    /\ legacy_pc' = IF legacy_pc = "soil" THEN "count" ELSE legacy_pc
    /\ UNCHANGED <<inputs, i, soil_water, lookups, droughtStressDays,
                   report_vars, legacy_soil_water>>
    /\ UNCHANGED <<date_vars, batch_vars, call_vars, pair_vars, evap_vars,
                   temp_vars, light_vars>>

NextLegacy == LegacyBegin \/ LegacyDay \/ LegacyReturn

SpecLegacy == InitLegacy /\ [][NextLegacy]_vars

\* ------------------------------------------------------------------------
\* climax_batch: the batch driver
\* ------------------------------------------------------------------------
MaxLines == 3

\* the header line written before the loop
Header ==
    <<"drought-before", "drought-after", "control-drought-before",
      "control-drought-after", "stress-drought-before", "stress-drought-after",
      "cold-before", "cold-after", "heat-before", "heat-after",
      "light-before", "light-after">>

\* int(culture_id): the texts that are numbers, any other text raises ValueError
Numerals == ("56878" :> 56878) @@ ("56875" :> 56875) @@ ("47109" :> 47109)
               @@ ("56879" :> 56879)

\* the trials of the database, by what getClimateData.main finds for them:
\* the irrigation rows, the counts of stress_days for the control and the
\* stress series, the two other results, and the exception main ends with
Database ==
    (56878 :> [irrigation |-> <<>>, control |-> <<16, 0>>, stress |-> <<16, 0>>,
               temp |-> <<4, 0, 3, 1>>, light |-> <<600, 100>>, raises |-> ""])
    @@ (56875 :> [irrigation |-> (1 :> <<<<1, 169>>, <<2, 170>>>>),
                  control |-> <<2, 1>>, stress |-> <<7, 5>>,
                  temp |-> <<0, 9, 0, 0>>, light |-> <<500, 200>>, raises |-> ""])
    @@ (47109 :> [irrigation |-> (1 :> <<<<1, 169>>>>),
                  control |-> <<3, 0>>, stress |-> <<12, 8>>,
                  temp |-> <<1, 1, 1, 1>>, light |-> <<300, 400>>, raises |-> ""])
    @@ (56879 :> [irrigation |-> <<>>, control |-> <<0, 0>>, stress |-> <<0, 0>>,
                  temp |-> <<0, 0, 0, 0>>, light |-> <<0, 0>>,
                  raises |-> "ZeroDivisionError"])

\* getClimateData.main: get_drought_stress_days returns one tuple per
\* treatment if irrigation is not empty, else the control counts alone;
\* has_irrigation = True if irrigation else False
main(cultureID) ==
    LET trial == Database[cultureID]
    IN IF trial.raises # "" THEN [raised |-> trial.raises, report |-> <<>>]
       ELSE [raised |-> "",
             report |-> [has_irrigation |-> bool(trial.irrigation),
                         tempStressDays |-> trial.temp,
                         droughtStressDays |->
                             IF bool(trial.irrigation)
                             THEN <<trial.control, trial.stress>>
                             ELSE trial.control,
                         per_treatment |-> bool(trial.irrigation),
                         lightIntensity |-> trial.light]]

\* climax_batch.get_climate_data(parameter_line); columns = the line split
\* at the tabs
get_climate_data(columns) ==
    IF Len(columns) # 4 THEN [raised |-> "AssertionError", report |-> <<>>]
    ELSE IF columns[1] \notin DOMAIN Numerals
         THEN [raised |-> "ValueError", report |-> <<>>]
         ELSE main(Numerals[columns[1]])

\* mutant: except ValueError
catches_value_error(exception) == exception = "ValueError"

\* except Exception: every exception raised under the try is one
catches(exception) ==
    exception \in {"AssertionError", "ValueError", "TypeError",
                   "ZeroDivisionError"}

\* the lines of an input file
ParameterLines ==
    {<<c, "2012-07-01", "42", "0.14">> :
        c \in {"56878", "56875", "47109", "56879", "n/a"}}
    \cup {<<"56878", "2012-07-01", "42">>}

InitBatch ==
    /\ input_file \in UNION {[1..n -> ParameterLines] : n \in 0..MaxLines}
    /\ line_no = 1
    /\ output_file = <<>>
    /\ stderr = <<>>
    /\ bpc = "header"
    /\ formatted = <<>>
    /\ DatesIdle
    /\ LegacyIdle
    /\ CallIdle
    /\ SoilIdle
    /\ ReportIdle
    /\ PairIdle
    /\ EvapIdle
    /\ TempIdle
    /\ LightIdle

\* args.output_file.write(header)
WriteHeader ==
    /\ bpc = "header"
    /\ output_file' = Append(output_file, Header)
    /\ bpc' = "loop"
    /\ UNCHANGED <<input_file, line_no, stderr, formatted>>
    /\ UNCHANGED <<date_vars, legacy_vars, call_vars, soil_vars, pair_vars,
                   evap_vars, temp_vars, light_vars>>

\* one iteration of "for i, line in enumerate(args.input_file, 1)": the try
\* block and its except clause
ProcessLine ==
    /\ bpc = "loop"
    /\ line_no <= Len(input_file)
    /\ LET line == input_file[line_no]
           data == get_climate_data(line)
           out == IF data.raised # ""
                  THEN [raised |-> data.raised, line |-> <<>>]
                  ELSE format_climate_data(data.report)
       IN /\ formatted' =
                IF data.raised # "" THEN formatted
                ELSE Append(formatted, [report |-> data.report, out |-> out])
          /\ IF out.raised = ""
             THEN /\ output_file' = Append(output_file, out.line)
                  /\ UNCHANGED <<stderr, bpc>>
             ELSE IF catches(out.raised)
                  THEN /\ stderr' = Append(stderr, <<line_no, line>>)
                       /\ UNCHANGED <<output_file, bpc>>
                  ELSE /\ bpc' = "crashed"
                       /\ UNCHANGED <<output_file, stderr>>
    /\ line_no' = line_no + 1
    /\ UNCHANGED input_file
    /\ UNCHANGED <<date_vars, legacy_vars, call_vars, soil_vars, pair_vars,
                   evap_vars, temp_vars, light_vars>>

\* the input file is exhausted
EndOfInput ==
    /\ bpc = "loop"
    /\ line_no > Len(input_file)
    /\ bpc' = "done"
    /\ UNCHANGED <<input_file, line_no, output_file, stderr, formatted>>
    /\ UNCHANGED <<date_vars, legacy_vars, call_vars, soil_vars, pair_vars,
                   evap_vars, temp_vars, light_vars>>

NextBatch == WriteHeader \/ ProcessLine \/ EndOfInput

SpecBatch == InitBatch /\ [][NextBatch]_vars

\* the interpreter runs the script on: a step that can be taken is taken
SpecBatchFair == SpecBatch /\ WF_vars(NextBatch)

\* ------------------------------------------------------------------------
\* get_climate_data called twice on one database snapshot
\* ------------------------------------------------------------------------
\* what the four queries of the head of get_climate_data return for the
\* trial, and what get_light_intensity makes of the light rows
Snapshots ==
    [rows : RowSeqs,
     evaporation : {<<>>} \cup {[d \in 1..LastDate |-> e] : e \in EvapAmounts},
     trial_dates : {generate_daterange(1, LastDate)},
     light : LightOutcomes]

\* database.cursor()
connect == [bound |-> TRUE, executed |-> ""]

\* CURSOR.execute(query): the cursor holds the result of the last query
execute(cursor, query) == [cursor EXCEPT !.executed = query]

\* mutant: without "global CURSOR" the assignment binds a local name
local_cursor(cursor) == NoCursor

\* global CURSOR; CURSOR = database.cursor(): the module-level name is bound
\* to the cursor the call works with
global_cursor(cursor) == cursor

InitTwice ==
    /\ snapshot \in Snapshots
    /\ CONNECTED_TO_DB = FALSE
    /\ CURSOR = NoCursor
    /\ call_no = 0
    /\ first_outcome = <<>>
    /\ culture_id \in Cultures
    /\ trial_dates = <<>>
    /\ precipitation = <<>>
    /\ evaporation = <<>>
    /\ irrigation = <<>>
    /\ soilVolume \in SoilVolumes
    /\ flowering_date \in FloweringDates
    /\ stress_threshold \in StressThresholds
    /\ pc = "call"
    /\ i = 1
    /\ soil_water = <<>>
    /\ lookups = {}
    /\ droughtStressDays = <<>>
    /\ ReportIdle
    /\ DatesIdle
    /\ LegacyIdle
    /\ BatchIdle
    /\ PairIdle
    /\ EvapIdle
    /\ TempIdle
    /\ LightIdle

\* a call of get_climate_data up to the call of get_drought_stress_days:
\* the connection is made if the flag is not set, the queries are executed
\* on CURSOR and their rows fetched; the call before, if any, has ended
GetClimateData ==
    /\ \/ call_no = 0 /\ pc = "call"
       \/ call_no = 1 /\ pc \in {"returned", "error", "light_error"}
    /\ call_no' = call_no + 1
    /\ first_outcome' = IF call_no = 1 THEN [pc |-> pc, report |-> report]
                        ELSE first_outcome
    /\ CONNECTED_TO_DB' = TRUE
    /\ LET used == IF CONNECTED_TO_DB THEN CURSOR ELSE connect
       IN IF ~used.bound
          THEN /\ pc' = "error"
               /\ CURSOR' = CURSOR
               /\ UNCHANGED <<trial_dates, precipitation, evaporation, irrigation>>
          ELSE /\ pc' = "start"
               /\ CURSOR' = IF CONNECTED_TO_DB
                            THEN execute(used, "TRIAL_DATES_QUERY")
                            ELSE global_cursor(execute(used, "TRIAL_DATES_QUERY"))
               /\ precipitation' = precipitation_of(snapshot.rows)
               /\ irrigation' = irrigation_of(snapshot.rows)
               /\ evaporation' = snapshot.evaporation
               /\ trial_dates' = snapshot.trial_dates
    /\ i' = 1
    /\ soil_water' = <<>>
    /\ lookups' = {}
    /\ droughtStressDays' = <<>>
    /\ per_treatment' = FALSE
    /\ report' = <<>>
    /\ output_line' = <<>>
    /\ UNCHANGED <<culture_id, soilVolume, flowering_date, stress_threshold,
                   snapshot>>
    /\ UNCHANGED <<date_vars, legacy_vars, batch_vars, pair_vars, evap_vars,
                   temp_vars, light_vars>>

NextTwice == GetClimateData \/ Next

SpecTwice == InitTwice /\ [][NextTwice]_vars

\* ------------------------------------------------------------------------
\* Vocabulary of the properties
\* ------------------------------------------------------------------------
Clamp(x, lo, hi) == Max(lo, Min(x, hi))

Shelter == culture_id \in ShelterCultures
WindowDates == {trial_dates[k] : k \in 1..Len(trial_dates)}
FillDates == {trial_dates[k] : k \in 1..Min(14, Len(trial_dates))}
SteadyDates == WindowDates \ FillDates

\* the simulation is running or has just returned (soil_water is as
\* get_soil_water built it)
Simulating == pc \in {"soil", "count"}

\* get_drought_stress_days has returned
Counted == pc \in {"done", "returned", "written", "light_error", "format_error"}

\* the dates whose loop iteration is over
CompletedDates == {trial_dates[k] : k \in 1..(i - 1)}

\* every element is exactly one calendar day after the element before it
ConsecutiveWindow ==
    \A k \in 1..(Len(trial_dates) - 1) : trial_dates[k + 1] = trial_dates[k] + 1

\* the recorded values
Recorded(d, t) == d \in DOMAIN soil_water /\ t \in DOMAIN soil_water[d]

\* water[d][t], 0 when nothing is recorded
Water(d, t) == IF Recorded(d, t) THEN soil_water[d][t] ELSE 0

\* the treatment an ID stands for: 169 and 171 Control, 170 Stress
ControlIds == {169, 171}
StressIds == {170}
CanonicalIds == ControlIds \cup StressIds
TreatmentOf(id) == IF id \in ControlIds THEN "control" ELSE "stress"

\* the irrigation records of date d for treatment t, as positions in the list
RecordsFor(irri, d, t) ==
    IF d \notin DOMAIN irri THEN {}
    ELSE {k \in 1..Len(irri[d]) :
             irri[d][k][2] \in CanonicalIds /\ TreatmentOf(irri[d][k][2]) = t}

\* the irrigation amount treatment t receives on date d: that of its (last)
\* record, 0 without a record
IrrigationAmount(irri, d, t) ==
    LET ks == RecordsFor(irri, d, t)
    IN IF ks = {} THEN 0
       ELSE irri[d][CHOOSE k \in ks : \A j \in ks : j <= k][1]

InvalidRecordOn(d) ==
    d \in DOMAIN irrigation
    /\ \E k \in 1..Len(irrigation[d]) : irrigation[d][k][2] \notin CanonicalIds

NonNegativeInputs ==
    /\ \A d \in DOMAIN precipitation : precipitation[d] >= 0
    /\ \A d \in DOMAIN irrigation :
          \A k \in 1..Len(irrigation[d]) : irrigation[d][k][1] >= 0
    /\ soilVolume >= 0

WithinCapacity ==
    \A d \in DOMAIN soil_water : \A t \in DOMAIN soil_water[d] :
        0 <= soil_water[d][t] /\ soil_water[d][t] <= soilVolume

\* ------------------------------------------------------------------------
\* C1
\* ------------------------------------------------------------------------
\* C1 as stated: in every state of the simulation, of get_soil_water and of
\* get_shelter_soil_water, every recorded water value w has
\* 0 <= w <= soilVolume, whatever the inputs are.
C1_WithinCapacityAllInputs == ConsecutiveWindow => WithinCapacity

\* C1, amended: when no precipitation and no irrigation amount is negative
\* and soilVolume >= 0, every recorded water value w has 0 <= w <= soilVolume
\* in every state, in the fill phase and in the steady-state phase, for both
\* simulations.
C1_WithinCapacity == NonNegativeInputs => WithinCapacity

\* the inputs are non-negative, the fill phase has cut a value at soilVolume
\* and the steady-state phase has raised a negative net water to 0
C1_Witness ==
    /\ NonNegativeInputs
    /\ pc = "count"
    /\ \E d \in FillDates, t \in {"control", "stress"} :
          /\ Recorded(d, t)
          /\ soil_water[d][t] = soilVolume
          /\ Water(d - 1, t) + Get(precipitation, d, 0)
                + IrrigationAmount(irrigation, d, t) > soilVolume
    /\ \E d \in SteadyDates, t \in {"control", "stress"} :
          /\ Recorded(d, t)
          /\ soil_water[d][t] = 0
          /\ Water(d - 1, t) - Get(evaporation, d, 0) + Get(precipitation, d, 0)
                + IrrigationAmount(irrigation, d, t) < 0

\* ------------------------------------------------------------------------
\* C2
\* ------------------------------------------------------------------------
\* C2: when get_soil_water returns, soil_water holds a value for every date
\* of the trial window and for both treatments on each of them.
C2_EveryDateBothTreatments ==
    (pc = "count" /\ ~Shelter /\ ConsecutiveWindow) =>
        \A d \in WindowDates : Recorded(d, "control") /\ Recorded(d, "stress")

\* ------------------------------------------------------------------------
\* C3
\* ------------------------------------------------------------------------
\* C3: for every date after the first 14 dates of the window and every
\* treatment, get_soil_water sets water[date][treatment] =
\* clamp(water[date-1][treatment] - evaporation[date] + precipitation[date]
\* + the irrigation amount of that treatment (if it has a record that date),
\* 0, soilVolume).
C3_SteadyStateRule ==
    (Simulating /\ ~Shelter /\ ConsecutiveWindow) =>
        \A d \in SteadyDates \cap CompletedDates : \A t \in {"control", "stress"} :
            /\ Recorded(d, t)
            /\ soil_water[d][t] =
                  Clamp(Water(d - 1, t) - Get(evaporation, d, 0)
                           + Get(precipitation, d, 0)
                           + IrrigationAmount(irrigation, d, t),
                        0, soilVolume)

\* ------------------------------------------------------------------------
\* C4
\* ------------------------------------------------------------------------
\* C4: for each of the first 14 dates of the window and every treatment,
\* get_soil_water sets water[date][treatment] = min(soilVolume,
\* water[date-1][treatment] + precipitation[date] + the irrigation amount of
\* that treatment if present).
C4_FillPhaseRule ==
    (Simulating /\ ~Shelter /\ ConsecutiveWindow) =>
        \A d \in FillDates \cap CompletedDates : \A t \in {"control", "stress"} :
            /\ Recorded(d, t)
            /\ soil_water[d][t] =
                  Min(soilVolume,
                      Water(d - 1, t) + Get(precipitation, d, 0)
                         + IrrigationAmount(irrigation, d, t))

\* ------------------------------------------------------------------------
\* C5
\* ------------------------------------------------------------------------
\* C5: every previous-day lookup made for a day returns the value recorded
\* for the calendar date day - 1 and the treatment asked for, and 0 when
\* nothing is recorded there, whatever the list holds before the day; the
\* lookups made for the first date of the window return 0.
C5_PreviousDayLookup ==
    \A l \in lookups :
        /\ l[3] = Water(l[1] - 1, l[2])
        /\ (Len(trial_dates) > 0 /\ l[1] = trial_dates[1]) => l[3] = 0

\* the date before the day is no date of the window, the list element before
\* the day holds water, and the lookup for the day returned 0
C5_Witness ==
    /\ pc = "count"
    /\ \E k \in 2..Len(trial_dates) : \E t \in {"control", "stress"} :
          /\ trial_dates[k] - 1 \notin WindowDates
          /\ Water(trial_dates[k - 1], t) > 0
          /\ <<trial_dates[k], t, 0>> \in lookups
    /\ \E t \in {"control", "stress"} : <<trial_dates[1], t, 0>> \in lookups
    /\ \E l \in lookups : l[3] > 0

C8_NonConsecutiveWindowFails ==
    ~ConsecutiveWindow => (soil_water = <<>> /\ pc \notin {"count", "done"})

\* ------------------------------------------------------------------------
\* C6
\* ------------------------------------------------------------------------
Water2(d, t) ==
    IF d \in DOMAIN soil_water2 /\ t \in DOMAIN soil_water2[d]
    THEN soil_water2[d][t] ELSE 0

\* C6: two runs of get_soil_water whose inputs differ only in the irrigation
\* records of the control treatment give the same stress value on every
\* date.
C6_StressIndependentOfControl ==
    NonNegativeInputs =>
        \A d \in CompletedDates : Water(d, "stress") = Water2(d, "stress")

\* ------------------------------------------------------------------------
\* C9
\* ------------------------------------------------------------------------
Readings == 1..Len(climate_data)
ReadingDates == {climate_data[k][1] : k \in Readings}

\* the readings of date d with temperature and humidity both present
TempHumReadings(d) ==
    {k \in Readings : /\ climate_data[k][1] = d
                      /\ climate_data[k][2] # None
                      /\ climate_data[k][4] # None}

\* the readings of date d with windspeed present
WindReadings(d) ==
    {k \in Readings : climate_data[k][1] = d /\ climate_data[k][3] # None}

\* C9: get_evaporation emits no value for a date that lacks a reading with
\* temperature and humidity both present or lacks a reading with windspeed
\* present, and it emits at most one value per date.
C9_NoEmissionWithoutReadings ==
    /\ \A d \in DOMAIN daily_evaporation :
          TempHumReadings(d) # {} /\ WindReadings(d) # {}
    /\ \A m \in 1..Len(emissions) :
          /\ TempHumReadings(emissions[m][1]) # {}
          /\ WindReadings(emissions[m][1]) # {}
          /\ \A n \in 1..Len(emissions) : emissions[n][1] = emissions[m][1] => n = m

\* get_evaporation has returned a value for one date and none for a date
\* that has temperature and humidity but no windspeed
C9_Witness ==
    /\ epc = "done"
    /\ DOMAIN daily_evaporation # {}
    /\ \E d \in ReadingDates \ DOMAIN daily_evaporation :
          TempHumReadings(d) # {} /\ WindReadings(d) = {}

\* ------------------------------------------------------------------------
\* C10
\* ------------------------------------------------------------------------
\* C10: get_evaporation emits a value for every date that has a reading with
\* temperature and humidity both non-null and a reading with windspeed
\* non-null, whatever the numbers are, and every such reading takes part in
\* the day's mean.
C10_EmissionForEveryCoveredDate ==
    epc = "done" =>
        \A d \in ReadingDates :
            (TempHumReadings(d) # {} /\ WindReadings(d) # {}) =>
                /\ d \in DOMAIN daily_evaporation
                /\ daily_evaporation[d].vpd[2] = Cardinality(TempHumReadings(d))
                /\ daily_evaporation[d].windspeed[2] = Cardinality(WindReadings(d))

\* ------------------------------------------------------------------------
\* C11
\* ------------------------------------------------------------------------
\* the dates whose iteration of the loop over the days is over
TempVisited ==
    IF tpc \in {"days", "done"} THEN DOMAIN dailyMinMaxTemp \ tdays_left ELSE {}

\* the appends made for date d to one of the lists
AppendsOf(d, lists) ==
    {m \in 1..Len(contributions) :
        contributions[m][1] = d /\ contributions[m][2] \in lists}

\* the values appended to a list, in order
RECURSIVE ValuesOf(_, _)
ValuesOf(history, list) ==
    IF history = <<>> THEN <<>>
    ELSE (IF Head(history)[2] = list THEN <<Head(history)[3]>> ELSE <<>>)
         \o ValuesOf(Tail(history), list)

\* sum of f[d] over the dates of S
RECURSIVE SumOver(_, _)
SumOver(S, f) ==
    IF S = {} THEN 0
    ELSE LET d == CHOOSE x \in S : TRUE IN f[d] + SumOver(S \ {d}, f)

ColdDates == {d \in DOMAIN dailyMinMaxTemp : dailyMinMaxTemp[d][1] < tlb}
HeatDates == {d \in DOMAIN dailyMinMaxTemp : dailyMinMaxTemp[d][2] > tub}
ColdDifference == [d \in DOMAIN dailyMinMaxTemp |-> abs(tlb - dailyMinMaxTemp[d][1])]
HeatDifference == [d \in DOMAIN dailyMinMaxTemp |-> abs(dailyMinMaxTemp[d][2] - tub)]

\* C11: for every date with daily extremes tMin and tMax, get_temp_stress_days
\* appends |tlb - tMin| to a cold list exactly when tMin < tlb and
\* |tMax - tub| to a heat list exactly when tMax > tub; one date may add to
\* both; each of the four results is the sum of these contributions over the
\* dates of its bucket.
C11_ThresholdExcursions ==
    /\ \A d \in TempVisited :
          /\ Cardinality(AppendsOf(d, {"cold_before", "cold_after"})) =
                (IF d \in ColdDates THEN 1 ELSE 0)
          /\ Cardinality(AppendsOf(d, {"heat_before", "heat_after"})) =
                (IF d \in HeatDates THEN 1 ELSE 0)
          /\ \A m \in AppendsOf(d, {"cold_before", "cold_after"}) :
                contributions[m][3] = ColdDifference[d]
          /\ \A m \in AppendsOf(d, {"heat_before", "heat_after"}) :
                contributions[m][3] = HeatDifference[d]
    /\ \A m \in 1..Len(contributions) : contributions[m][1] \in TempVisited
    /\ cold_before = ValuesOf(contributions, "cold_before")
    /\ cold_after = ValuesOf(contributions, "cold_after")
    /\ heat_before = ValuesOf(contributions, "heat_before")
    /\ heat_after = ValuesOf(contributions, "heat_after")
    /\ tpc = "done" =>
          tempStressDays =
             <<SumOver({d \in ColdDates : d < flowering_date}, ColdDifference),
               SumOver({d \in ColdDates : d >= flowering_date}, ColdDifference),
               SumOver({d \in HeatDates : d < flowering_date}, HeatDifference),
               SumOver({d \in HeatDates : d >= flowering_date}, HeatDifference)>>

\* with tlb = 8 and tub = 30, a date with tMin = 5 and tMax = 35 has added 3
\* to the cold list and 5 to the heat list, and the results are these sums
C11_Witness ==
    /\ tpc = "done"
    /\ tlb = 8
    /\ tub = 30
    /\ \E d \in DOMAIN dailyMinMaxTemp :
          /\ dailyMinMaxTemp[d] = <<5, 35>>
          /\ d < flowering_date
          /\ \E m \in 1..Len(contributions) : contributions[m] = <<d, "cold_before", 3>>
          /\ \E m \in 1..Len(contributions) : contributions[m] = <<d, "heat_before", 5>>
    /\ tempStressDays = <<3, 0, 5, 0>>

\* ------------------------------------------------------------------------
\* C12
\* ------------------------------------------------------------------------
\* the non-null temperatures read on date d
TemperaturesOf(d) ==
    {climate_data[k][2][1] : k \in {j \in 1..Len(climate_data) :
        climate_data[j][1] = d /\ climate_data[j][2] # None}}

Minimum(S) == CHOOSE x \in S : \A y \in S : x <= y
Maximum(S) == CHOOSE x \in S : \A y \in S : y <= x

\* C12: once the readings are processed, the tMin and tMax of every date are
\* the minimum and the maximum over all of that date's readings whose
\* temperature is non-null, whatever the numbers are.
C12_ExtremesOverNonNullReadings ==
    tpc \in {"days", "done"} =>
        \A d \in DOMAIN dailyMinMaxTemp :
            TemperaturesOf(d) # {} =>
                dailyMinMaxTemp[d] =
                    <<Minimum(TemperaturesOf(d)), Maximum(TemperaturesOf(d))>>

\* ------------------------------------------------------------------------
\* C13
\* ------------------------------------------------------------------------
\* no list holds a value of a date on which no reading has a temperature
NoContributionWithoutTemperature ==
    \A m \in 1..Len(contributions) : TemperaturesOf(contributions[m][1]) # {}

\* C13 as stated: a date on which no reading has a temperature contributes
\* to neither the cold nor the heat bucket, whatever tlb and tub are.
C13_NoTemperatureNoContribution == NoContributionWithoutTemperature

\* C13, amended: when tlb <= 1000.0 and tub >= -1000.0 (the values the daily
\* minimum and maximum start at), a date on which no reading has a
\* temperature contributes to neither the cold nor the heat bucket.
C13_NoContributionWithinInitialValues ==
    (tlb <= InitialMin /\ tub >= InitialMax) => NoContributionWithoutTemperature

\* with the default bounds, a date without any temperature was visited and
\* added nothing while another date added to a list
C13_Witness ==
    /\ tpc = "done"
    /\ tlb = 8
    /\ tub = 30
    /\ \E d \in DOMAIN dailyMinMaxTemp :
          /\ TemperaturesOf(d) = {}
          /\ AppendsOf(d, {"cold_before", "cold_after", "heat_before", "heat_after"}) = {}
    /\ contributions # <<>>

\* ------------------------------------------------------------------------
\* C15
\* ------------------------------------------------------------------------
\* the readings of date d that are > 0, as positions in light_data
PositiveReadings(d) ==
    {k \in 1..Len(light_data) : light_data[k][1] = d /\ light_data[k][2] > 0}

\* sum of the readings at the positions of K
RECURSIVE RadiationSum(_)
RadiationSum(K) ==
    IF K = {} THEN 0
    ELSE LET k == CHOOSE x \in K : TRUE IN light_data[k][2] + RadiationSum(K \ {k})

\* (sum of the date's readings > 0) * (number of the date's readings > 0)
DailyScore(d) == RadiationSum(PositiveReadings(d)) * Cardinality(PositiveReadings(d))

LightDatesRead == {light_data[k][1] : k \in 1..Len(light_data)}

\* the dates whose iteration of the loop over the days is over
LightVisited ==
    IF lpc \in {"days", "done", "error"} THEN LightDatesRead \ ldays_left ELSE {}

\* C15: for every date, the daily light score of get_light_intensity equals
\* (sum of that date's readings that are > 0) multiplied by (number of that
\* date's readings that are > 0); readings <= 0 are in neither.
C15_DailyLightScore ==
    /\ \A m \in 1..Len(scores) : scores[m][3] = DailyScore(scores[m][1])
    /\ L1 = ValuesOf(scores, "L1")
    /\ L2 = ValuesOf(scores, "L2")
    /\ lpc \in {"days", "done", "error"} =>
          \A d \in LightDatesRead :
              sum(dailyLight[d]) = RadiationSum(PositiveReadings(d))
              /\ Len(dailyLight[d]) = Cardinality(PositiveReadings(d))

\* readings of 100, 200 and one <= 0 on one date have given the score 600
C15_Witness ==
    /\ \E m \in 1..Len(scores) :
          /\ scores[m][3] = 600
          /\ \E j, k \in PositiveReadings(scores[m][1]) :
                light_data[j][2] = 100 /\ light_data[k][2] = 200
          /\ \E k \in 1..Len(light_data) :
                light_data[k][1] = scores[m][1] /\ light_data[k][2] <= 0

\* ------------------------------------------------------------------------
\* C16
\* ------------------------------------------------------------------------
\* the dates of a bucket that have at least one reading > 0
QualifyingBefore ==
    {d \in LightDatesRead : d < flowering_date /\ PositiveReadings(d) # {}}
QualifyingAfter ==
    {d \in LightDatesRead : d >= flowering_date /\ PositiveReadings(d) # {}}

AllDailyScores == [d \in LightDatesRead |-> DailyScore(d)]

\* the quotient <<n, k>> is the arithmetic mean of the daily scores of Q
IsMeanOfScores(quotient, Q) ==
    quotient[1] * Cardinality(Q) = SumOver(Q, AllDailyScores) * quotient[2]

\* C16: each component of get_light_intensity's result is the arithmetic mean
\* of the daily scores of exactly those dates of the bucket that have at
\* least one positive radiation reading; dates with no positive reading
\* count neither in the numerator nor in the divisor.
C16_MeanOverQualifyingDates ==
    lpc = "done" =>
        /\ QualifyingBefore # {} => IsMeanOfScores(lightIntensity[1], QualifyingBefore)
        /\ QualifyingAfter # {} => IsMeanOfScores(lightIntensity[2], QualifyingAfter)

\* ------------------------------------------------------------------------
\* C17
\* ------------------------------------------------------------------------
\* C17: if the 'before' or the 'after' bucket has no date with at least one
\* positive radiation reading, get_light_intensity ends in an error and
\* returns no number for it.
C17_EmptyBucketIsAnError ==
    (lpc \in {"done", "error"} /\ (QualifyingBefore = {} \/ QualifyingAfter = {})) =>
        (lpc = "error" /\ lightIntensity = <<>>)

\* ------------------------------------------------------------------------
\* C14
\* ------------------------------------------------------------------------
\* the list of a bucket
BucketOf(list) ==
    IF list \in {"cold_before", "heat_before", "L1"} THEN "before" ELSE "after"

\* the bucket of a date
BucketOfDate(d) == IF d < flowering_date THEN "before" ELSE "after"

\* the dates the drought counter counts for a treatment
StressedDates(t) == {d \in DOMAIN soil_water : Water(d, t) < stress_threshold}

\* a 2-tuple of counts holds every stressed date once, in its bucket
CountsSplit(counts, t) ==
    /\ counts[1] = Cardinality({d \in StressedDates(t) : BucketOfDate(d) = "before"})
    /\ counts[2] = Cardinality({d \in StressedDates(t) : BucketOfDate(d) = "after"})
    /\ counts[1] + counts[2] = Cardinality(StressedDates(t))

\* C14: in the temperature, light and drought aggregators, every date is
\* assigned to exactly one bucket: 'before' when date < floweringDate and
\* 'after' when date >= floweringDate (the flowering date itself counts as
\* 'after'); no date is counted in both buckets or in none.
C14_OneBucketPerDate ==
    /\ \A m \in 1..Len(contributions) :
          /\ BucketOf(contributions[m][2]) = BucketOfDate(contributions[m][1])
          /\ \A n \in 1..Len(contributions) :
                (contributions[n][1] = contributions[m][1]
                 /\ contributions[n][2] = contributions[m][2]) => n = m
    /\ \A d \in TempVisited :
          /\ d \in ColdDates => AppendsOf(d, {"cold_before", "cold_after"}) # {}
          /\ d \in HeatDates => AppendsOf(d, {"heat_before", "heat_after"}) # {}
    /\ \A d \in LightVisited :
          \E m \in 1..Len(scores) :
              /\ scores[m][1] = d
              /\ BucketOf(scores[m][2]) = BucketOfDate(d)
              /\ \A n \in 1..Len(scores) : scores[n][1] = d => n = m
    /\ \A m \in 1..Len(scores) : scores[m][1] \in LightVisited
    /\ (Counted /\ per_treatment) =>
          /\ CountsSplit(droughtStressDays[1], "control")
          /\ CountsSplit(droughtStressDays[2], "stress")
    /\ (Counted /\ ~per_treatment) =>
          CountsSplit(droughtStressDays, "control")

\* the temperature aggregator has put the flowering date into the 'after'
\* lists and the date before it into the 'before' lists
C14_Witness ==
    /\ tpc = "done"
    /\ \E m, n \in 1..Len(contributions) :
          /\ contributions[m][1] = flowering_date
          /\ contributions[m][2] = "cold_after"
          /\ contributions[n][1] = flowering_date - 1
          /\ contributions[n][2] = "cold_before"

\* ------------------------------------------------------------------------
\* C18
\* ------------------------------------------------------------------------
\* the dates of the trial window whose level for treatment t is strictly
\* below the threshold; a level the simulation did not record reads 0.0
BelowThreshold(t) == {d \in WindowDates : Water(d, t) < stress_threshold}

\* the counts (before, after) of treatment t
DroughtCounts(t) ==
    <<Cardinality({d \in BelowThreshold(t) : d < flowering_date}),
      Cardinality({d \in BelowThreshold(t) : d >= flowering_date})>>

C19_NoIrrigationSingleTuple ==
    irrigation = <<>> =>
        /\ Counted =>
              /\ ~per_treatment
              /\ droughtStressDays = DroughtCounts("control")
              /\ \A d \in DOMAIN soil_water : "control" \in DOMAIN soil_water[d]
        /\ report # <<>> =>
              /\ report.has_irrigation = FALSE
              /\ ~report.per_treatment
              /\ report.droughtStressDays = droughtStressDays

\* a trial without irrigation records was reported with has_irrigation =
\* False and a single 2-tuple that counts dates before and after flowering
C19_Witness ==
    /\ irrigation = <<>>
    /\ pc = "returned"
    /\ report.has_irrigation = FALSE
    /\ ~report.per_treatment
    /\ report.droughtStressDays[1] > 0
    /\ report.droughtStressDays[2] > 0

\* ------------------------------------------------------------------------
\* C20
\* ------------------------------------------------------------------------
\* C20: for every trial the report is self-consistent: has_irrigation is true
\* exactly when the irrigation feed returned at least one row, droughtStress
\* is a pair of per-treatment 2-tuples exactly when has_irrigation is true
\* and a single 2-tuple exactly when it is false, and formatting the report
\* by has_irrigation never fails.
C20_ReportSelfConsistent ==
    report # <<>> =>
        /\ report.has_irrigation <=> (irrigation # <<>>)
        /\ report.per_treatment <=> report.has_irrigation
        /\ pc # "format_error"

\* ------------------------------------------------------------------------
\* C21
\* ------------------------------------------------------------------------
\* the gain of treatment t on fill-phase date d under the shelter
ShelterGain(d, t) ==
    (IF t = "control" THEN Get(precipitation, d, 0) ELSE 0)
       + IrrigationAmount(irrigation, d, t)

FirstSteadyDate == trial_dates[InitialDays + 1]

\* the treatment whose previous-day value serves treatment t on date d
SeriesRead(d, t) == IF d = FirstSteadyDate THEN "control" ELSE t

\* C22: for the shelter trials, every value recorded after the fill phase
\* is clamp(previous-day value - evaporation + precipitation + the
\* treatment's irrigation amount, 0, soilVolume), where the previous-day
\* value is Control's on the 15th date of the window, for Stress too, and
\* the treatment's own on every later date; the lookups made on the 15th
\* date all ask for Control.
C22_FirstSteadyDateReadsControl ==
    (Simulating /\ Shelter) =>
        /\ \A d \in SteadyDates \cap CompletedDates :
              \A t \in {"control", "stress"} :
                 Recorded(d, t) =>
                    soil_water[d][t] =
                       Clamp(Water(d - 1, SeriesRead(d, t))
                                - Get(evaporation, d, 0)
                                + Get(precipitation, d, 0)
                                + IrrigationAmount(irrigation, d, t),
                             0, soilVolume)
        /\ \A l \in lookups :
              (l[1] \in SteadyDates /\ l[1] = FirstSteadyDate) => l[2] = "control"

\* Control and Stress differ on the last date of the fill phase, Stress
\* takes Control's value over on the 15th date, and on the 16th date it
\* has read its own value of the 15th
C22_Witness ==
    /\ pc = "count"
    /\ Shelter
    /\ Len(trial_dates) > InitialDays + 1
    /\ LET d == FirstSteadyDate
       IN /\ Water(d - 1, "control") # Water(d - 1, "stress")
          /\ Recorded(d, "stress") /\ Recorded(d, "control")
          /\ soil_water[d]["stress"] =
                Clamp(Water(d - 1, "control") - Get(evaporation, d, 0)
                         + Get(precipitation, d, 0)
                         + IrrigationAmount(irrigation, d, "stress"),
                      0, soilVolume)
          /\ soil_water[d]["stress"] #
                Clamp(Water(d - 1, "stress") - Get(evaporation, d, 0)
                         + Get(precipitation, d, 0)
                         + IrrigationAmount(irrigation, d, "stress"),
                      0, soilVolume)
          /\ d + 1 \in WindowDates
          /\ Recorded(d + 1, "stress")
          /\ <<d + 1, "stress", soil_water[d]["stress"]>> \in lookups

\* ------------------------------------------------------------------------
\* C30
\* ------------------------------------------------------------------------
\* C30: in get_soil_water, for non-negative precipitation and irrigation
\* amounts and any evaporation, the values recorded for a treatment on the
\* dates of the fill phase never decrease from an earlier date to a later
\* one.
C30_FillPhaseAccumulates ==
    (Simulating /\ ~Shelter /\ NonNegativeInputs /\ ConsecutiveWindow) =>
        \A d \in FillDates, e \in FillDates : \A t \in {"control", "stress"} :
            (d < e /\ Recorded(d, t) /\ Recorded(e, t)) =>
                soil_water[e][t] >= soil_water[d][t]

\* ------------------------------------------------------------------------
\* C29
\* ------------------------------------------------------------------------
\* C29: no step of get_soil_water, get_shelter_soil_water or
\* get_drought_stress_days changes the precipitation map, the evaporation
\* map, the irrigation map or the trial window: each holds the same keys and
\* values after the step as before it.
C29_InputsUnchanged ==
    [][/\ precipitation' = precipitation
       /\ evaporation' = evaporation
       /\ irrigation' = irrigation
       /\ trial_dates' = trial_dates]_vars

\* the counts are returned after a simulation over a default-valued
\* irrigation map with records on some dates of the window and none on
\* others: every date went through the membership test
C29_Witness ==
    /\ Counted
    /\ irrigation # <<>>
    /\ \E d \in WindowDates : d \in DOMAIN irrigation
    /\ \E d \in WindowDates : d \notin DOMAIN irrigation
    /\ DOMAIN soil_water = WindowDates

\* ------------------------------------------------------------------------
\* C26
\* ------------------------------------------------------------------------
\* the dates start, start + 1, ..., end in ascending order
ExactRange(list, start, end) ==
    /\ Len(list) = Max(0, end - start + 1)
    /\ \A k \in 1..Len(list) : list[k] = start + (k - 1)

OrderedConsecutive(list) ==
    \A k \in 1..(Len(list) - 1) : list[k + 1] = list[k] + 1

\* C28: for a list of dates, are_consecutive returns True if the list is an
\* ordered consecutive sequence of dates and False for every other list,
\* repeated and out-of-order dates included.
C28_TrueIffOrderedConsecutive ==
    (answer # "" /\ date_list # <<>>) =>
        /\ answer \in {"True", "False"}
        /\ answer = "True" <=> OrderedConsecutive(date_list)

\* ------------------------------------------------------------------------
\* C27
\* ------------------------------------------------------------------------
\* the value getClimateData.get_soil_water holds, 0 when none is recorded
LegacyWater(d, t) ==
    IF d \in DOMAIN legacy_soil_water /\ t \in DOMAIN legacy_soil_water[d]
    THEN legacy_soil_water[d][t] ELSE 0

\* C27: on the same precipitation, evaporation and irrigation maps, with the
\* window equal to the sorted evaporation dates and the treatment IDs among
\* 169 and 170, the simulator of getClimateData.py and the simulator of
\* climate_data.py hold the same water value for every date and treatment,
\* after every date and when both have returned.
C27_LegacyAgreesWithPackaged ==
    (pc \in {"soil", "count"} /\ legacy_pc \in {"soil", "count"}) =>
        \A d \in WindowDates : \A t \in {"control", "stress"} :
            Water(d, t) = LegacyWater(d, t)

\* ------------------------------------------------------------------------
\* C23
\* ------------------------------------------------------------------------
\* line k of the input can be processed: four columns, a numeric trial ID,
\* and a trial for which main returns a report
Successful(k) ==
    /\ Len(input_file[k]) = 4
    /\ input_file[k][1] \in DOMAIN Numerals
    /\ Database[Numerals[input_file[k][1]]].raises = ""

\* the row of a successful line
RowOf(k) == format_climate_data(main(Numerals[input_file[k][1]]).report).line

\* the rows of the successful lines among the first k, in input order
RECURSIVE RowsUpTo(_)
RowsUpTo(k) ==
    IF k = 0 THEN <<>>
    ELSE RowsUpTo(k - 1) \o (IF Successful(k) THEN <<RowOf(k)>> ELSE <<>>)

\* the diagnostics of the failing lines among the first k, in input order
RECURSIVE DiagnosticsUpTo(_)
DiagnosticsUpTo(k) ==
    IF k = 0 THEN <<>>
    ELSE DiagnosticsUpTo(k - 1)
            \o (IF Successful(k) THEN <<>> ELSE <<<<k, input_file[k]>>>>)

\* C23: every run of the batch driver comes to its end having gone through
\* every input line, and from then on the output holds the header followed
\* by exactly one row per successful line, in input order, and the
\* diagnostics hold exactly one entry per failing line, in input order: a
\* failing line gives no row and does not keep later lines from being
\* processed.
C23_EveryLineProcessedInOrder ==
    <>[](/\ bpc = "done"
         /\ line_no = Len(input_file) + 1
         /\ output_file = <<Header>> \o RowsUpTo(Len(input_file))
         /\ stderr = DiagnosticsUpTo(Len(input_file)))

\* a run over three lines, the second failing: the output holds the header
\* and the rows of the first and the third line, the diagnostics name line 2
C23_Witness ==
    /\ bpc = "done"
    /\ Len(input_file) = 3
    /\ Successful(1) /\ ~Successful(2) /\ Successful(3)
    /\ RowOf(1) # RowOf(3)
    /\ output_file = <<Header, RowOf(1), RowOf(3)>>
    /\ stderr = <<<<2, input_file[2]>>>>

\* ------------------------------------------------------------------------
\* C24
\* ------------------------------------------------------------------------
\* the text a header column stands for in the row of report r
FieldFor(column, r) ==
    CASE column = "drought-before" ->
            IF r.has_irrigation THEN "NA" ELSE ToString(r.droughtStressDays[1])
      [] column = "drought-after" ->
            IF r.has_irrigation THEN "NA" ELSE ToString(r.droughtStressDays[2])
      [] column = "control-drought-before" ->
            IF r.has_irrigation THEN ToString(r.droughtStressDays[1][1]) ELSE "NA"
      [] column = "control-drought-after" ->
            IF r.has_irrigation THEN ToString(r.droughtStressDays[1][2]) ELSE "NA"
      [] column = "stress-drought-before" ->
            IF r.has_irrigation THEN ToString(r.droughtStressDays[2][1]) ELSE "NA"
      [] column = "stress-drought-after" ->
            IF r.has_irrigation THEN ToString(r.droughtStressDays[2][2]) ELSE "NA"
      [] column = "cold-before" -> ToString(r.tempStressDays[1])
      [] column = "cold-after" -> ToString(r.tempStressDays[2])
      [] column = "heat-before" -> ToString(r.tempStressDays[3])
      [] column = "heat-after" -> ToString(r.tempStressDays[4])
      [] column = "light-before" -> ToString(r.lightIntensity[1])
      [] column = "light-after" -> ToString(r.lightIntensity[2])

\* C24: every report the driver hands to format_climate_data is rendered as
\* one row of 12 fields in the order of the header: with has_irrigation true
\* the two plain drought fields are "NA" and the four control/stress fields
\* carry the counts, with has_irrigation false the plain drought fields
\* carry the counts and the four control/stress fields are "NA"; the
\* temperature and light fields carry their values in both cases.
C24_RowFollowsHeader ==
    /\ Len(Header) = 12
    /\ \A n \in 1..Len(formatted) :
          LET f == formatted[n]
          IN /\ f.out.raised = ""
             /\ Len(f.out.line) = 12
             /\ \A k \in 1..12 : f.out.line[k] = FieldFor(Header[k], f.report)

\* a report with irrigation and a report without have both been rendered
C24_Witness ==
    /\ bpc = "done"
    /\ \E n \in 1..Len(formatted), m \in 1..Len(formatted) :
          LET f == formatted[n]
              g == formatted[m]
          IN
          /\ f.report.has_irrigation /\ ~g.report.has_irrigation
          /\ f.out.line \in {output_file[k] : k \in 2..Len(output_file)}
          /\ g.out.line \in {output_file[k] : k \in 2..Len(output_file)}
          /\ f.out.line[1] = "NA" /\ f.out.line[3] # "NA"
          /\ g.out.line[1] # "NA" /\ g.out.line[3] = "NA"

\* ------------------------------------------------------------------------
\* C25
\* ------------------------------------------------------------------------
\* a call of get_climate_data has ended: it returned its report or raised
CallEnded == pc \in {"returned", "error", "light_error"}

\* C25: when the second of two calls of get_climate_data on the same
\* database snapshot has ended, it has ended as the first call did: with the
\* same exception, or with a report equal to the report of the first call;
\* the flag and the cursor the first call left make no difference.
C25_SecondCallSameReport ==
    (call_no = 2 /\ CallEnded) =>
        /\ pc = first_outcome.pc
        /\ pc = "returned" => report = first_outcome.report

\* both calls returned a report with per-treatment counts; the second call
\* found the flag set and used the cursor the first call had left
C25_Witness ==
    /\ call_no = 2
    /\ pc = "returned"
    /\ first_outcome.pc = "returned"
    /\ CONNECTED_TO_DB
    /\ CURSOR.bound
    /\ report.has_irrigation
    /\ report.per_treatment
    /\ report.droughtStressDays[1] # report.droughtStressDays[2]

====
